---- MODULE Spec2Model ----
(***************************************************************************)
(* Memory cleanup pipeline of living-memory-system-improved.py:            *)
(* WeightedRelevanceCalculator, LivingMemorySystem (candidate scans and    *)
(* cleanup application) and AutoCleanupScheduler (one cleanup cycle with   *)
(* its _is_running guard), run by coroutines of one asyncio event loop     *)
(* against a shared graph.  One action is the code executed between two    *)
(* awaits; the answer of the graph collaborator to a query (rows, no rows, *)
(* an exception) is chosen when the awaited query completes.               *)
(***************************************************************************)
EXTENDS Integers, Sequences, FiniteSets, TLC

\* ---------------------------------------------------------------- bounds
MaxNodes == 2                  \* node identities in the graph
MaxCalls == 2                  \* API calls started in one behaviour
max_candidates_per_cycle == 3  \* scheduler cap (constructor argument)

Ids == 1..MaxNodes
\* the coroutines calling into the system: one whose call is in flight and
\* one that calls meanwhile
Callers == {1, 2}

\* ------------------------------------------------------ program constants
W_AGE == 30                    \* weights in hundredths
W_CONNECTIONS == 30
W_ACCESS_COUNT == 20
W_CATEGORY == 10
W_IMPORTANCE == 10
relevance_threshold == 30      \* 0.3 in hundredths
days_until_stale == 90
min_connections == 1
IsolatedMinAgeDays == 30
ScanLimit == 100
DuplicateLimit == 50
YearDays == 365
ConnectionsSaturation == 10
AccessSaturation == 50

\* One unit of a factor score: 1.0 == Unit (3650), so that age/365,
\* connections/10 and access_count/50 are whole numbers.  A relevance score
\* is kept in hundredths of Unit (weights are hundredths).
Unit == YearDays * ConnectionsSaturation

Min(a, b) == IF a < b THEN a ELSE b
Max(a, b) == IF a > b THEN a ELSE b

\* CleanupAction
DELETE == "delete"
ARCHIVE == "archive"
MERGE == "merge"
UPDATE == "update"
CleanupAction == {DELETE, ARCHIVE, MERGE, UPDATE}

\* An Optional value is <<>> (None) or <<v>>.
None == <<>>
Some(v) == <<v>>

\* ------------------------------------------------------------ graph nodes
\* Stored properties of a node; created_at / updated_at are kept as ages in
\* days relative to datetime.now().  label is "Learning", "Archive" or
\* "gone" (deleted).
NodeProfiles ==
  << \* isolated, old, never touched: isolated + stale + low relevance
    [label |-> "Learning", content |-> "x", category |-> "general",
     importance |-> "medium", created_at |-> Some(200), updated_at |-> Some(200),
     access_count |-> 0, connections |-> 0],
    \* isolated and old but important and recently updated
    [label |-> "Learning", content |-> "x", category |-> "general",
     importance |-> "high", created_at |-> Some(100), updated_at |-> Some(5),
     access_count |-> 2, connections |-> 0],
    \* well connected but stale
    [label |-> "Learning", content |-> "y", category |-> "professional",
     importance |-> "medium", created_at |-> Some(400), updated_at |-> None,
     access_count |-> 10, connections |-> 10],
    \* healthy
    [label |-> "Learning", content |-> "y", category |-> "general",
     importance |-> "medium", created_at |-> Some(3), updated_at |-> Some(1),
     access_count |-> 1, connections |-> 2] >>

\* MemoryNode built from a query row (_row_to_memory_node)
MemoryNode(id, row, connections) ==
  [id |-> id, content |-> row.content, category |-> row.category,
   importance |-> row.importance, created_at |-> row.created_at,
   updated_at |-> row.updated_at, access_count |-> row.access_count,
   connections |-> connections]

\* --------------------------------------------------- relevance calculator
DefaultWeights ==
  [age |-> W_AGE, connections |-> W_CONNECTIONS, access_count |-> W_ACCESS_COUNT,
   category |-> W_CATEGORY, importance |-> W_IMPORTANCE]

\* a weighted sum whose connection and access factors are not capped at 1.0
calculate_unsaturated(weights, node) ==
  LET age_score == IF node.updated_at # None
                   THEN Max(0, Unit - (Unit \div YearDays) * node.updated_at[1])
                   ELSE 0
      connection_score == (Unit \div ConnectionsSaturation) * node.connections
      access_score == (Unit \div AccessSaturation) * node.access_count
      category_bonus == IF node.category = "professional" THEN weights.category * Unit ELSE 0
      importance_bonus == IF node.importance = "high" THEN weights.importance * Unit ELSE 0
      score == age_score * weights.age + connection_score * weights.connections
               + access_score * weights.access_count + category_bonus + importance_bonus
  IN score

\* WeightedRelevanceCalculator.calculate, in hundredths of Unit
calculate(weights, node) ==
  LET age_score == IF node.updated_at # None
                   THEN Max(0, Unit - (Unit \div YearDays) * node.updated_at[1])
                   ELSE 0
      connection_score == Min(Unit, (Unit \div ConnectionsSaturation) * node.connections)
      access_score == Min(Unit, (Unit \div AccessSaturation) * node.access_count)
      category_bonus == IF node.category = "professional" THEN weights.category * Unit ELSE 0
      importance_bonus == IF node.importance = "high" THEN weights.importance * Unit ELSE 0
      score == age_score * weights.age + connection_score * weights.connections
               + access_score * weights.access_count + category_bonus + importance_bonus
  IN Min(100 * Unit, score)

LowRelevance(node) == calculate(DefaultWeights, node) < relevance_threshold * Unit

\* ------------------------------------------------------------- sequences
RECURSIVE SortedIds(_)
SortedIds(S) ==
  IF S = {} THEN <<>>
  ELSE LET m == CHOOSE x \in S : \A y \in S : x <= y
       IN <<m>> \o SortedIds(S \ {m})

Reverse(s) == [i \in 1..Len(s) |-> s[Len(s) + 1 - i]]

\* The graph collaborator returns the matching rows in an order of its own
\* choosing (the scan queries have no ORDER BY): ascending or descending id.
RowOrders == {"asc", "desc"}
Rows(S, ord) == IF ord = "asc" THEN SortedIds(S) ELSE Reverse(SortedIds(S))

Take(s, n) == SubSeq(s, 1, Min(n, Len(s)))

RECURSIVE Concat(_)
Concat(ss) == IF ss = <<>> THEN <<>> ELSE Head(ss) \o Concat(Tail(ss))

\* ------------------------------------------------------------ candidates
CleanupCandidate(node, action, reason, priority, similarity_target) ==
  [node |-> node, action |-> action, reason |-> reason, priority |-> priority,
   similarity_target |-> similarity_target]

Learning(g) == {i \in Ids : g[i].label = "Learning"}

OlderThan(at, days) == at # None /\ at[1] > days

\* _find_isolated_nodes: zero relationships, created more than 30 days ago
_find_isolated_nodes(g, ord) ==
  LET matched == {i \in Learning(g) :
                    /\ g[i].connections = 0
                    /\ (OlderThan(g[i].created_at, IsolatedMinAgeDays)
                        \/ g[i].created_at = None)}
      rows == Take(Rows(matched, ord), ScanLimit)
  IN [k \in 1..Len(rows) |->
        LET node == MemoryNode(rows[k], g[rows[k]], 0)
            action == IF node.importance # "high" THEN DELETE ELSE ARCHIVE
        IN CleanupCandidate(node, action, "isolated",
                            IF action = DELETE THEN 3 ELSE 2, None)]

\* a stale scan that archives whatever the relevance
_find_stale_nodes_archiving(g, ord) ==
  LET matched == {i \in Learning(g) :
                    \/ OlderThan(g[i].updated_at, days_until_stale)
                    \/ (g[i].updated_at = None
                        /\ OlderThan(g[i].created_at, days_until_stale))}
      rows == Take(Rows(matched, ord), ScanLimit)
  IN [k \in 1..Len(rows) |->
        CleanupCandidate(MemoryNode(rows[k], g[rows[k]], g[rows[k]].connections),
                         ARCHIVE, "stale", 1, None)]

\* _find_stale_nodes: not modified within days_until_stale
_find_stale_nodes(g, ord) ==
  LET matched == {i \in Learning(g) :
                    \/ OlderThan(g[i].updated_at, days_until_stale)
                    \/ (g[i].updated_at = None
                        /\ OlderThan(g[i].created_at, days_until_stale))}
      rows == Take(Rows(matched, ord), ScanLimit)
  IN [k \in 1..Len(rows) |->
        LET node == MemoryNode(rows[k], g[rows[k]], g[rows[k]].connections)
        IN IF LowRelevance(node)
           THEN CleanupCandidate(node, DELETE, "stale", 4, None)
           ELSE CleanupCandidate(node, ARCHIVE, "stale", 1, None)]

\* ORDER BY node.updated_at DESC, node.access_count DESC: a missing
\* updated_at sorts first in descending order; remaining ties are left to
\* the collaborator (ord).
KeeperBefore(g, a, b, ord) ==
  LET ua == g[a].updated_at
      ub == g[b].updated_at
  IN IF ua # ub
     THEN \/ ua = None
          \/ (ub # None /\ ua[1] < ub[1])
     ELSE IF g[a].access_count # g[b].access_count
          THEN g[a].access_count > g[b].access_count
          ELSE IF ord = "asc" THEN a < b ELSE a > b

ContentGroup(g, i) == {j \in Learning(g) : g[j].content = g[i].content}

Keeper(g, i, ord) ==
  CHOOSE k \in ContentGroup(g, i) :
    \A o \in ContentGroup(g, i) \ {k} : KeeperBefore(g, k, o, ord)

\* order of the rows of the duplicate query: group after group, each group
\* in its ORDER BY order
DuplicateRowBefore(g, a, b, ord) ==
  IF g[a].content = g[b].content
  THEN KeeperBefore(g, a, b, ord)
  ELSE IF ord = "asc" THEN Keeper(g, a, ord) < Keeper(g, b, ord)
       ELSE Keeper(g, a, ord) > Keeper(g, b, ord)

RECURSIVE DuplicateRows(_, _, _)
DuplicateRows(g, S, ord) ==
  IF S = {} THEN <<>>
  ELSE LET m == CHOOSE x \in S : \A y \in S \ {x} : DuplicateRowBefore(g, x, y, ord)
       IN <<m>> \o DuplicateRows(g, S \ {m}, ord)

\* _find_duplicate_nodes: every member of a content group but its keeper
_find_duplicate_nodes(g, ord) ==
  LET dups == {i \in Learning(g) :
                 Cardinality(ContentGroup(g, i)) > 1 /\ Keeper(g, i, ord) # i}
      rows == Take(DuplicateRows(g, dups, ord), DuplicateLimit)
  IN [k \in 1..Len(rows) |->
        CleanupCandidate(MemoryNode(rows[k], g[rows[k]], 0), MERGE, "duplicate",
                         3, Some(Keeper(g, rows[k], ord)))]

RECURSIVE SelectLowRelevance(_)
SelectLowRelevance(nodes) ==
  IF nodes = <<>> THEN <<>>
  ELSE (IF LowRelevance(Head(nodes))
        THEN <<CleanupCandidate(Head(nodes), DELETE, "low_relevance", 2, None)>>
        ELSE <<>>) \o SelectLowRelevance(Tail(nodes))

\* _find_low_relevance_nodes: fewer than min_connections relationships and a
\* relevance below the threshold
_find_low_relevance_nodes(g, ord) ==
  LET matched == {i \in Learning(g) : g[i].connections < min_connections}
      rows == Take(Rows(matched, ord), ScanLimit)
  IN SelectLowRelevance([k \in 1..Len(rows) |->
                           MemoryNode(rows[k], g[rows[k]], g[rows[k]].connections)])

\* the four sub-scans, in the order of the task list given to asyncio.gather
Scans == <<"isolated", "stale", "duplicate", "low_relevance">>
ScanNames == {Scans[i] : i \in DOMAIN Scans}

RunScan(s, g, ord) ==
  CASE s = "isolated" -> _find_isolated_nodes(g, ord)
    [] s = "stale" -> _find_stale_nodes(g, ord)
    [] s = "duplicate" -> _find_duplicate_nodes(g, ord)
    [] s = "low_relevance" -> _find_low_relevance_nodes(g, ord)

\* ------------------------------------------- identify_cleanup_candidates
\* an insertion that puts c in front of the elements of its own priority
RECURSIVE InsertBeforeEqual(_, _)
InsertBeforeEqual(sorted, c) ==
  IF sorted = <<>> THEN <<c>>
  ELSE IF Head(sorted).priority > c.priority
       THEN <<Head(sorted)>> \o InsertBeforeEqual(Tail(sorted), c)
       ELSE <<c>> \o sorted

\* candidates.sort(key=priority, reverse=True): Python's sort is stable, also
\* with reverse=True, so c goes behind every element of priority >= its own.
RECURSIVE InsertByPriority(_, _)
InsertByPriority(sorted, c) ==
  IF sorted = <<>> THEN <<c>>
  ELSE IF Head(sorted).priority >= c.priority
       THEN <<Head(sorted)>> \o InsertByPriority(Tail(sorted), c)
       ELSE <<c>> \o sorted

RECURSIVE SortByPriority(_)
SortByPriority(cands) ==
  IF cands = <<>> THEN <<>>
  ELSE InsertByPriority(SortByPriority(SubSeq(cands, 1, Len(cands) - 1)),
                        cands[Len(cands)])

\* result of one gathered sub-scan: status "ok" with its candidates, or
\* "failed" (the exception object asyncio.gather returns in its place)
ScanPending == [status |-> "pending", rows |-> <<>>]
ScanFailed == [status |-> "failed", rows |-> <<>>]
ScanOk(rows) == [status |-> "ok", rows |-> rows]

\* a loop that stops at the first failed sub-scan (break for continue)
RECURSIVE UntilFirstFailure(_, _)
UntilFirstFailure(scans, i) ==
  IF i > Len(Scans) \/ scans[Scans[i]].status = "failed" THEN <<>>
  ELSE scans[Scans[i]].rows \o UntilFirstFailure(scans, i + 1)

GatheredUntilFailure(scans) == UntilFirstFailure(scans, 1)

\* the loop over the gathered results: exceptions are logged and skipped
GatheredCandidates(scans) ==
  Concat([i \in DOMAIN Scans |->
            IF scans[Scans[i]].status = "failed" THEN <<>> ELSE scans[Scans[i]].rows])

\* the first candidate of every node identity
RECURSIVE FirstPerNode(_, _)
FirstPerNode(cands, seen) ==
  IF cands = <<>> THEN <<>>
  ELSE IF Head(cands).node.id \in seen THEN FirstPerNode(Tail(cands), seen)
       ELSE <<Head(cands)>> \o FirstPerNode(Tail(cands), seen \cup {Head(cands).node.id})

\* an identification that keeps one candidate per node
identify_deduplicated(scans) == FirstPerNode(SortByPriority(GatheredCandidates(scans)), {})

identify_cleanup_candidates(scans) == SortByPriority(GatheredCandidates(scans))

\* ------------------------------------------------- apply_cleanup_actions
CleanupResults ==
  [deleted |-> 0, archived |-> 0, merged |-> 0, refreshed |-> 0, errors |-> <<>>]

\* actions_map: a dict keeps its keys in insertion order, so the groups run
\* in the order in which their action first occurs among the candidates
RECURSIVE GroupByAction(_, _)
GroupByAction(cands, map) ==
  IF cands = <<>> THEN map
  ELSE LET c == Head(cands)
           idx == {k \in DOMAIN map : map[k].action = c.action}
       IN GroupByAction(Tail(cands),
            IF idx = {}
            THEN Append(map, [action |-> c.action, cands |-> <<c>>])
            ELSE [map EXCEPT ![CHOOSE k \in idx : TRUE].cands = Append(@, c)])

NodeIds(cands) == {cands[k].node.id : k \in DOMAIN cands}

\* the counter of CleanupResults an action group reports into
SetCount(results, action, count) ==
  CASE action = DELETE -> [results EXCEPT !.deleted = count]
    [] action = ARCHIVE -> [results EXCEPT !.archived = count]
    [] action = MERGE -> [results EXCEPT !.merged = count]
    [] action = UPDATE -> [results EXCEPT !.refreshed = count]

\* effect of the batched mutations on the nodes they match
DeleteNodes(g, ids) ==
  [i \in Ids |-> IF i \in ids \cap Learning(g) THEN [g[i] EXCEPT !.label = "gone"] ELSE g[i]]

ArchiveNodes(g, ids) ==
  [i \in Ids |-> IF i \in ids \cap Learning(g) THEN [g[i] EXCEPT !.label = "Archive"] ELSE g[i]]

UpdateNodes(g, ids) ==
  [i \in Ids |-> IF i \in ids \cap Learning(g)
                 THEN [g[i] EXCEPT !.access_count = @ + 1, !.updated_at = Some(0)]
                 ELSE g[i]]

Mutate(g, action, ids) ==
  CASE action = DELETE -> DeleteNodes(g, ids)
    [] action = ARCHIVE -> ArchiveNodes(g, ids)
    [] action = UPDATE -> UpdateNodes(g, ids)

\* The merge query yields a row only if source and target are both Learning
\* nodes and the source has a relationship to transfer (its second MATCH).
MergeMatches(g, source, target) ==
  /\ source \in Learning(g)
  /\ target \in Learning(g)
  /\ g[source].connections > 0

MergePair(g, source, target) ==
  [i \in Ids |->
     IF i = source THEN [g[i] EXCEPT !.label = "gone"]
     ELSE IF i = target
          THEN [g[i] EXCEPT !.connections = @ + g[source].connections,
                            !.access_count = @ + g[source].access_count,
                            !.updated_at = Some(0)]
          ELSE g[i]]

\* ------------------------------------------------------------------ state
VARIABLES
  graph,          \* the Learning graph held by the collaborator
  _is_running,    \* AutoCleanupScheduler._is_running
  last_cleanup,   \* AutoCleanupScheduler.last_cleanup (None or Some(time))
  clock,          \* logical time: number of API calls started so far
  task            \* per calling coroutine: its position and local variables

\* the other components of the repository, each with its own specification
VARIABLES
  calculator,     \* a WeightedRelevanceCalculator and its last calculate()
  connection,     \* a CircuitBreaker, the ConnectionPool around it, the time
  query_cache,    \* a QueryCache
  batch_run,      \* one BatchProcessor.process_in_batches call
  lazy_memory     \* the server's LazyMemory and the tool calls that go through it

cleanup_vars == <<graph, _is_running, last_cleanup, clock, task>>
components == <<calculator, connection, query_cache, batch_run, lazy_memory>>
vars == <<graph, _is_running, last_cleanup, clock, task,
          calculator, connection, query_cache, batch_run, lazy_memory>>

\* a component nobody has constructed
NotConstructed == [status |-> "none"]

IdleTask ==
  [pc |-> "idle", op |-> "none", call_no |-> 0,
   health_before |-> None, health_after |-> None,
   scans |-> [s \in ScanNames |-> ScanPending],
   identified |-> <<>>, candidates |-> <<>>,
   apply_invoked |-> FALSE, applied |-> <<>>, actions_map |-> <<>>,
   gi |-> 1, mi |-> 1, merged_count |-> 0,
   results |-> CleanupResults, apply_ret |-> None,
   outcome |-> "none", ret |-> None,
   \* what happened during the call (read by the properties only)
   before_answer |-> "none", after_answer |-> "none", log_answer |-> "none",
   pair_raised |-> FALSE, group_trace |-> <<>>, issued |-> <<>>]

\* Node identities are interchangeable (the collaborator returns rows in
\* either id order), so the initial graphs list their nodes in the order of
\* NodeProfiles.
InitialGraphs ==
  {[i \in Ids |-> NodeProfiles[f[i]]] :
     f \in {h \in [Ids -> DOMAIN NodeProfiles] :
              \A i, j \in Ids : i < j => h[i] <= h[j]}}

Init ==
  /\ graph \in InitialGraphs
  /\ _is_running = FALSE
  /\ last_cleanup = None
  /\ clock = 0
  /\ task = [c \in Callers |-> IdleTask]
  /\ calculator = NotConstructed
  /\ connection = NotConstructed
  /\ query_cache = NotConstructed
  /\ batch_run = NotConstructed
  /\ lazy_memory = NotConstructed

\* ----------------------------------------------------------- health query
\* answers of the collaborator to the aggregate health query
HealthAnswers == {"row", "empty", "raise"}

MemoryHealthMetrics(g) ==
  [total_nodes |-> Cardinality(Learning(g)),
   isolated_nodes |-> Cardinality({i \in Learning(g) : g[i].connections = 0})]

\* an analyzer that answers an empty result with default metrics
analyze_with_defaults(g, answer) ==
  IF answer = "raise" THEN None
  ELSE IF answer = "row" THEN Some(MemoryHealthMetrics(g))
       ELSE Some([total_nodes |-> 0, isolated_nodes |-> 0])

\* OptimizedMemoryAnalyzer.analyze: None stands for a raised exception
analyze(g, answer) ==
  IF answer = "row" THEN Some(MemoryHealthMetrics(g)) ELSE None

\* ------------------------------------------------------------ control flow
\* leaving run_cleanup_cycle by an exception
\* an exception that is swallowed: the cycle returns what it has
RaisedSwallowed(t) == [t EXCEPT !.pc = "done", !.outcome = "returned", !.ret = Some(t.results)]

Raised(t) == [t EXCEPT !.pc = "done", !.outcome = "raised"]
\* a guard that lets every call in
RejectsNever(running) == FALSE

\* the guard at the head of run_cleanup_cycle
Rejects(running) == running
\* the release as the last statement of the try block instead of a finally
GuardAfterExitNoFinally(raised) == raised

\* _is_running once run_cleanup_cycle has left its try block, by a return
\* or by an exception (raised): the finally clause
GuardAfterExit(raised) == FALSE

\* apply_cleanup_actions returned: its caller goes on
\* an end of the apply step that goes straight to the metrics log
FinishApplyLogsFirst(t) ==
  LET r == [t EXCEPT !.apply_ret = Some(t.results)]
  IN IF t.op = "apply"
     THEN [r EXCEPT !.pc = "done", !.outcome = "returned", !.ret = Some(t.results)]
     ELSE [r EXCEPT !.pc = "log", !.issued = Append(@, "log")]

FinishApply(t) ==
  LET r == [t EXCEPT !.apply_ret = Some(t.results)]
  IN IF t.op = "apply"
     THEN [r EXCEPT !.pc = "done", !.outcome = "returned", !.ret = Some(t.results)]
     ELSE [r EXCEPT !.pc = "health_after", !.issued = Append(@, "health")]

\* _merge_nodes between two queries: candidates without a merge target are
\* skipped, and at the end of the group merged_count is stored
RECURSIVE Advance(_)
Advance(t) ==
  IF t.gi > Len(t.actions_map) THEN t
  ELSE LET grp == t.actions_map[t.gi]
       IN IF grp.action # MERGE THEN t
          ELSE IF t.mi > Len(grp.cands)
               THEN Advance([t EXCEPT !.results = SetCount(@, MERGE, t.merged_count),
                                      !.gi = @ + 1, !.mi = 1, !.merged_count = 0,
                                      !.pair_raised = FALSE,
                                      !.group_trace = Append(@,
                                         [action |-> MERGE, raised |-> t.pair_raised,
                                          count |-> t.merged_count])])
               ELSE IF grp.cands[t.mi].similarity_target = None
                    THEN Advance([t EXCEPT !.mi = @ + 1])
                    ELSE t

\* run the loop of apply_cleanup_actions up to its next query
Continue(t) ==
  LET a == Advance(t)
  IN IF a.gi <= Len(a.actions_map)
     THEN [a EXCEPT !.pc = "apply", !.issued = Append(@, a.actions_map[a.gi].action)]
     ELSE FinishApply(a)

StartApply(t, cands) ==
  Continue([t EXCEPT !.apply_invoked = TRUE, !.applied = cands,
                     !.results = CleanupResults,
                     !.actions_map = GroupByAction(cands, <<>>),
                     !.gi = 1, !.mi = 1, !.merged_count = 0,
                     !.pair_raised = FALSE, !.group_trace = <<>>])

\* an except clause that logs the failure of a group without recording it
GroupRaisedSilent(t, action) ==
  [t EXCEPT !.gi = @ + 1,
            !.group_trace = Append(@, [action |-> action, raised |-> TRUE, count |-> 0])]

\* an exception of one group that leaves the loop over the groups
GroupRaisedAborts(t, action) ==
  [t EXCEPT !.results.errors = Append(@, action), !.gi = Len(t.actions_map) + 1,
            !.group_trace = Append(@, [action |-> action, raised |-> TRUE, count |-> 0])]

\* an action group whose mutation raised: the except clause of the loop
GroupRaised(t, action) ==
  [t EXCEPT !.results.errors = Append(@, action), !.gi = @ + 1,
            !.group_trace = Append(@, [action |-> action, raised |-> TRUE, count |-> 0])]

\* an action group whose mutation returned count
\* a counter that takes the number of candidates of the group for the count
GroupCountedByCandidates(t, action, count) ==
  [t EXCEPT !.results = SetCount(@, action, Len(t.actions_map[t.gi].cands)),
            !.gi = @ + 1,
            !.group_trace = Append(@, [action |-> action, raised |-> FALSE,
                                       count |-> Len(t.actions_map[t.gi].cands)])]

GroupCounted(t, action, count) ==
  [t EXCEPT !.results = SetCount(@, action, count), !.gi = @ + 1,
            !.group_trace = Append(@, [action |-> action, raised |-> FALSE,
                                       count |-> count])]

\* one merge pair answered: counted only when a row came back
PairMerged(t, rows) ==
  [t EXCEPT !.mi = @ + 1, !.merged_count = IF rows THEN @ + 1 ELSE @]

\* a merge pair whose exception leaves the loop over the candidates
PairRaisedAborts(t) ==
  [t EXCEPT !.mi = Len(t.actions_map[t.gi].cands) + 1, !.pair_raised = TRUE]

\* one merge pair raised: the except clause inside _merge_nodes logs it
PairRaised(t) ==
  [t EXCEPT !.mi = @ + 1, !.pair_raised = TRUE]

\* a slice that keeps the tail of the list: candidates[-max_candidates_per_cycle:]
TruncateTail(cands) ==
  IF Len(cands) > max_candidates_per_cycle
  THEN SubSeq(cands, Len(cands) - max_candidates_per_cycle + 1, Len(cands))
  ELSE cands

\* candidates = candidates[:max_candidates_per_cycle]
Truncate(cands) ==
  IF Len(cands) > max_candidates_per_cycle
  THEN Take(cands, max_candidates_per_cycle)
  ELSE cands

\* step 3 of run_cleanup_cycle
AfterIdentify(t, cands) ==
  IF cands # <<>>
  THEN StartApply(t, cands)
  ELSE [t EXCEPT !.results = CleanupResults, !.pc = "health_after",
                 !.issued = Append(@, "health")]

\* a logger without its try/except
_log_cleanup_metrics_unguarded(answer) == answer = "raise"

\* _log_cleanup_metrics: TRUE iff it raises to run_cleanup_cycle
_log_cleanup_metrics(answer) == FALSE

\* a cycle that builds a new CleanupResults for its caller
CycleReturnFresh(t) == Some(CleanupResults)

\* value returned by a cycle that completed
CycleReturn(t) == Some(t.results)

\* ---------------------------------------------------------------- actions
\* The outcome of a finished call is kept in the caller's task until the
\* caller consumes it (Forget); a new call starts once the outcomes of the
\* other callers have been consumed.
OthersConsumed(c) == \A d \in Callers \ {c} : task[d].pc # "done"

\* The callers are interchangeable: a call is made by the first idle one.
FirstIdle(c) == \A d \in Callers : d < c => task[d].pc # "idle"

\* Direct calls of apply_cleanup_actions are made by a maintenance caller
\* while nothing else is in flight, and no cycle is started during one.
OthersIdle(c) == \A d \in Callers \ {c} : task[d].pc = "idle"
NoDirectApply(c) == \A d \in Callers \ {c} : task[d].op # "apply"

\* run_cleanup_cycle() is called: the guard, then up to the first await
\* (the 'before' health query)
CallRunCleanupCycle(c) ==
  /\ task[c].pc = "idle"
  /\ FirstIdle(c)
  /\ OthersConsumed(c)
  /\ NoDirectApply(c)
  /\ clock < MaxCalls
  /\ clock' = clock + 1
  /\ IF Rejects(_is_running)
     THEN /\ task' = [task EXCEPT ![c] = [@ EXCEPT !.pc = "done", !.op = "cycle",
                                                   !.call_no = clock + 1,
                                                   !.outcome = "rejected"]]
          /\ UNCHANGED _is_running
     ELSE /\ _is_running' = TRUE
          /\ task' = [task EXCEPT ![c] = [@ EXCEPT !.pc = "health_before", !.op = "cycle",
                                                   !.call_no = clock + 1,
                                                   !.issued = <<"health">>]]
  /\ UNCHANGED <<graph, last_cleanup>>
  /\ UNCHANGED components

\* the 'before' health query is answered; on success the four sub-scans are
\* started by asyncio.gather, each up to its query
HealthBeforeDone(c) ==
  /\ task[c].pc = "health_before"
  /\ \E answer \in HealthAnswers :
       LET health == analyze(graph, answer)
       IN IF health = None
          THEN /\ task' = [task EXCEPT ![c] =
                             Raised([task[c] EXCEPT !.before_answer = answer])]
               /\ _is_running' = GuardAfterExit(TRUE)
          ELSE /\ task' = [task EXCEPT ![c] =
                             [@ EXCEPT !.pc = "identify", !.health_before = health,
                                       !.before_answer = answer,
                                       !.issued = @ \o Scans]]
               /\ UNCHANGED _is_running
  /\ UNCHANGED <<graph, last_cleanup, clock>>
  /\ UNCHANGED components

\* a scan query that records the read on the nodes it matched
ScanTouchesNodes(g) ==
  [i \in DOMAIN g |-> [g[i] EXCEPT !.access_count = @ + 1]]

\* the graph after a scan query: the four queries are MATCH ... RETURN, with
\* no SET, CREATE or DELETE clause
ScanEffect(g) == g

\* one sub-scan finishes: its query is answered (rows in the collaborator's
\* order) and turned into candidates, or the scan raises
ScanDone(c, s) ==
  /\ task[c].pc = "identify"
  /\ task[c].scans[s].status = "pending"
  /\ \/ \E ord \in RowOrders :
          task' = [task EXCEPT ![c].scans[s] = ScanOk(RunScan(s, graph, ord))]
     \/ task' = [task EXCEPT ![c].scans[s] = ScanFailed]
  /\ graph' = ScanEffect(graph)
  /\ UNCHANGED <<_is_running, last_cleanup, clock>>
  /\ UNCHANGED components

\* gather returned: collect, sort, truncate, then apply up to the first
\* mutation query, or go straight to the 'after' health query
IdentifyDone(c) ==
  /\ task[c].pc = "identify"
  /\ \A s \in ScanNames : task[c].scans[s].status # "pending"
  /\ LET identified == identify_cleanup_candidates(task[c].scans)
         candidates == Truncate(identified)
     IN task' = [task EXCEPT ![c] =
                   AfterIdentify([task[c] EXCEPT !.identified = identified,
                                                 !.candidates = candidates], candidates)]
  /\ UNCHANGED <<graph, _is_running, last_cleanup, clock>>
  /\ UNCHANGED components

\* answers of the collaborator to a mutation query
MutationAnswers == {"count", "empty", "raise"}

\* the batched mutation of a Delete, Archive or Update group is answered
GroupDone(c) ==
  /\ task[c].pc = "apply"
  /\ LET grp == task[c].actions_map[task[c].gi]
         matched == NodeIds(grp.cands) \cap Learning(graph)
     IN /\ grp.action # MERGE
        /\ \E answer \in MutationAnswers :
             CASE answer = "count" ->
                    /\ graph' = Mutate(graph, grp.action, matched)
                    /\ task' = [task EXCEPT ![c] =
                         Continue(GroupCounted(task[c], grp.action, Cardinality(matched)))]
               [] answer = "empty" ->
                    /\ task' = [task EXCEPT ![c] =
                         Continue(GroupCounted(task[c], grp.action, 0))]
                    /\ UNCHANGED graph
               [] answer = "raise" ->
                    /\ task' = [task EXCEPT ![c] = Continue(GroupRaised(task[c], grp.action))]
                    /\ UNCHANGED graph
  /\ UNCHANGED <<_is_running, last_cleanup, clock>>
  /\ UNCHANGED components

\* the merge query of one candidate of the Merge group is answered
MergeDone(c) ==
  /\ task[c].pc = "apply"
  /\ LET grp == task[c].actions_map[task[c].gi]
         cand == grp.cands[task[c].mi]
         source == cand.node.id
         target == cand.similarity_target[1]
     IN /\ grp.action = MERGE
        /\ \/ /\ MergeMatches(graph, source, target)
              /\ graph' = MergePair(graph, source, target)
              /\ task' = [task EXCEPT ![c] = Continue(PairMerged(task[c], TRUE))]
           \/ /\ ~MergeMatches(graph, source, target)
              /\ task' = [task EXCEPT ![c] = Continue(PairMerged(task[c], FALSE))]
              /\ UNCHANGED graph
           \/ /\ task' = [task EXCEPT ![c] = Continue(PairRaised(task[c]))]
              /\ UNCHANGED graph
  /\ UNCHANGED <<_is_running, last_cleanup, clock>>
  /\ UNCHANGED components

\* the 'after' health query is answered; on success the metrics log query is
\* issued
HealthAfterDone(c) ==
  /\ task[c].pc = "health_after"
  /\ \E answer \in HealthAnswers :
       LET health == analyze(graph, answer)
       IN IF health = None
          THEN /\ task' = [task EXCEPT ![c] =
                             Raised([task[c] EXCEPT !.after_answer = answer])]
               /\ _is_running' = GuardAfterExit(TRUE)
          ELSE /\ task' = [task EXCEPT ![c] =
                             [@ EXCEPT !.pc = "log", !.health_after = health,
                                       !.after_answer = answer,
                                       !.issued = Append(@, "log")]]
               /\ UNCHANGED _is_running
  /\ UNCHANGED <<graph, last_cleanup, clock>>
  /\ UNCHANGED components

\* the CleanupLog write is answered; the cycle records last_cleanup and
\* returns, the finally clause releases the guard
LogDone(c) ==
  /\ task[c].pc = "log"
  /\ \E answer \in {"written", "raise"} :
       LET t == [task[c] EXCEPT !.log_answer = answer]
       IN IF _log_cleanup_metrics(answer)
          THEN /\ task' = [task EXCEPT ![c] = Raised(t)]
               /\ UNCHANGED last_cleanup
               /\ _is_running' = GuardAfterExit(TRUE)
          ELSE /\ task' = [task EXCEPT ![c] =
                             [t EXCEPT !.pc = "done", !.outcome = "returned",
                                       !.ret = CycleReturn(t)]]
               /\ last_cleanup' = Some(clock)
               /\ _is_running' = GuardAfterExit(FALSE)
  /\ UNCHANGED <<graph, clock>>
  /\ UNCHANGED components

\* candidate lists a caller hands to apply_cleanup_actions directly
DirectCandidate(g, id, action, target) ==
  CleanupCandidate(MemoryNode(id, g[id], g[id].connections), action, "direct", 0, target)

DirectInputs(g) ==
  { <<DirectCandidate(g, 1, UPDATE, None), DirectCandidate(g, 2, DELETE, None)>>,
    <<DirectCandidate(g, 1, MERGE, None), DirectCandidate(g, 2, UPDATE, None),
      DirectCandidate(g, 1, ARCHIVE, None)>>,
    <<DirectCandidate(g, 2, MERGE, None), DirectCandidate(g, 2, MERGE, Some(1))>>,
    <<DirectCandidate(g, 1, MERGE, Some(2)), DirectCandidate(g, 2, MERGE, None),
      DirectCandidate(g, 2, MERGE, Some(1))>> }

\* apply_cleanup_actions(candidates) is called directly
CallApplyCleanupActions(c) ==
  /\ task[c].pc = "idle"
  /\ FirstIdle(c)
  /\ OthersIdle(c)
  /\ clock < MaxCalls
  /\ clock' = clock + 1
  /\ \E cands \in DirectInputs(graph) :
       task' = [task EXCEPT ![c] =
                  StartApply([task[c] EXCEPT !.op = "apply", !.call_no = clock + 1],
                             cands)]
  /\ UNCHANGED <<graph, _is_running, last_cleanup>>
  /\ UNCHANGED components

\* the caller has consumed the outcome of its call
Forget(c) ==
  /\ task[c].pc = "done"
  /\ task' = [task EXCEPT ![c] = IdleTask]
  /\ UNCHANGED <<graph, _is_running, last_cleanup, clock>>
  /\ UNCHANGED components

Next ==
  \E c \in Callers :
    \/ CallRunCleanupCycle(c)
    \/ HealthBeforeDone(c)
    \/ \E s \in ScanNames : ScanDone(c, s)
    \/ IdentifyDone(c)
    \/ GroupDone(c)
    \/ MergeDone(c)
    \/ HealthAfterDone(c)
    \/ LogDone(c)
    \/ CallApplyCleanupActions(c)
    \/ Forget(c)

Spec == Init /\ [][Next]_vars

\* ------------------------------------- identify_cleanup_candidates, direct
\* identify_cleanup_candidates() is called on the memory system itself, one
\* call after the other: the four sub-scans are started by asyncio.gather
CallIdentifyCleanupCandidates(c) ==
  /\ task[c].pc = "idle"
  /\ FirstIdle(c)
  /\ \A d \in Callers \ {c} : task[d].pc \in {"idle", "done"}
  /\ clock < MaxCalls
  /\ clock' = clock + 1
  /\ task' = [task EXCEPT ![c] = [@ EXCEPT !.pc = "identify", !.op = "identify",
                                           !.call_no = clock + 1,
                                           !.issued = Scans]]
  /\ UNCHANGED <<graph, _is_running, last_cleanup>>
  /\ UNCHANGED components

\* gather returned: collect, sort and return the list to the caller
IdentifyReturn(c) ==
  /\ task[c].pc = "identify"
  /\ task[c].op = "identify"
  /\ \A s \in ScanNames : task[c].scans[s].status # "pending"
  /\ task' = [task EXCEPT ![c] =
                [@ EXCEPT !.pc = "done", !.outcome = "returned",
                          !.identified = identify_cleanup_candidates(task[c].scans)]]
  /\ UNCHANGED <<graph, _is_running, last_cleanup, clock>>
  /\ UNCHANGED components

NextIdentify ==
  \E c \in Callers :
    \/ CallIdentifyCleanupCandidates(c)
    \/ \E s \in ScanNames : ScanDone(c, s)
    \/ IdentifyReturn(c)

SpecIdentify == Init /\ [][NextIdentify]_vars

\* ------------------------------------------------------------- properties
\* a caller is inside the Running body of run_cleanup_cycle
InCycle(c) ==
  /\ task[c].op = "cycle"
  /\ task[c].pc \in {"health_before", "identify", "apply", "health_after", "log"}

\* a step in which run_cleanup_cycle is called by c
CycleCalled(c) == task[c].pc = "idle" /\ task'[c].op = "cycle"

\* C1: run_cleanup_cycle is single-flight.  At most one caller is inside the
\* Running body, and the guard is set while one is; a call made while a cycle
\* is in flight is rejected at once, has issued no query, and its step leaves
\* the guard, the graph and every other caller's cycle as they were.
C1_SingleFlight ==
  /\ [](/\ Cardinality({c \in Callers : InCycle(c)}) <= 1
        /\ (\E c \in Callers : InCycle(c)) => _is_running
        /\ \A c \in Callers :
             task[c].outcome = "rejected" =>
               /\ task[c].pc = "done"
               /\ task[c].issued = <<>>
               /\ task[c].ret = None)
  /\ [][\A c \in Callers :
          (CycleCalled(c) /\ \E d \in Callers : InCycle(d)) =>
            /\ task'[c].outcome = "rejected"
            /\ _is_running' = _is_running
            /\ graph' = graph
            /\ last_cleanup' = last_cleanup
            /\ \A d \in Callers \ {c} : task'[d] = task[d]]_vars

C1_Witness ==
  \E c, d \in Callers :
    /\ task[c].outcome = "rejected"
    /\ InCycle(d)
    /\ task[d].pc = "apply"
    /\ _is_running

\* C2: every exit of a cycle that entered Running, by return or by an
\* exception, leaves the scheduler Idle: the guard is set only while a caller
\* is inside the body, and a call made while no cycle is in flight is accepted.
C2_GuardReleased ==
  /\ [](_is_running => \E c \in Callers : InCycle(c))
  /\ [][\A c \in Callers :
          (CycleCalled(c) /\ \A d \in Callers : ~InCycle(d)) =>
            /\ task'[c].outcome # "rejected"
            /\ InCycle(c)']_vars

\* a cycle that had applied its candidates raised from the 'after' health
\* analysis, and the scheduler is Idle again
C2_Witness ==
  \E c \in Callers :
    /\ task[c].op = "cycle"
    /\ task[c].pc = "done"
    /\ task[c].outcome = "raised"
    /\ task[c].apply_invoked
    /\ task[c].after_answer = "raise"
    /\ ~_is_running

\* ---- helpers of the properties
Range(seq) == {seq[k] : k \in DOMAIN seq}

Occurrences(seq, x) == Cardinality({k \in DOMAIN seq : seq[k] = x})

CounterOf(results, action) ==
  CASE action = DELETE -> results.deleted
    [] action = ARCHIVE -> results.archived
    [] action = MERGE -> results.merged
    [] action = UPDATE -> results.refreshed

Actions(cands) == {cands[k].action : k \in DOMAIN cands}

\* every action group of the applied candidates was executed exactly once
EveryGroupExecuted(t) ==
  /\ {t.group_trace[k].action : k \in DOMAIN t.group_trace} = Actions(t.applied)
  /\ Len(t.group_trace) = Cardinality(Actions(t.applied))

\* C3 as stated: a group whose mutation raised (for Merge: a merge query that
\* raised) keeps its counter at 0 and adds exactly one entry naming it to
\* errors, while every other group is executed and counted.
C3_AsClaimed ==
  \A c \in Callers :
    task[c].apply_ret # None =>
      LET r == task[c].apply_ret[1]
          tr == task[c].group_trace
      IN /\ EveryGroupExecuted(task[c])
         /\ \A k \in DOMAIN tr :
              IF tr[k].raised
              THEN /\ CounterOf(r, tr[k].action) = 0
                   /\ Occurrences(r.errors, tr[k].action) = 1
              ELSE /\ CounterOf(r, tr[k].action) = tr[k].count
                   /\ Occurrences(r.errors, tr[k].action) = 0

\* C3 (amended): apply_cleanup_actions isolates failures per action group.
\* Every group present is executed once; a Delete, Archive or Update group
\* whose mutation raised keeps its counter at 0 and adds exactly one entry
\* naming it to errors; every other group reports its count and adds no
\* entry.  The Merge group never adds an entry: a merge query that raises is
\* caught per pair and merged counts the pairs that were confirmed.
C3_GroupIsolation ==
  \A c \in Callers :
    task[c].apply_ret # None =>
      LET r == task[c].apply_ret[1]
          tr == task[c].group_trace
      IN /\ EveryGroupExecuted(task[c])
         /\ Len(r.errors) =
              Cardinality({k \in DOMAIN tr : tr[k].raised /\ tr[k].action # MERGE})
         /\ \A k \in DOMAIN tr :
              IF tr[k].raised /\ tr[k].action # MERGE
              THEN /\ CounterOf(r, tr[k].action) = 0
                   /\ Occurrences(r.errors, tr[k].action) = 1
              ELSE /\ CounterOf(r, tr[k].action) = tr[k].count
                   /\ Occurrences(r.errors, tr[k].action) = 0

\* the Delete group raised, the Archive group after it archived a node
C3_Witness ==
  \E c \in Callers :
    /\ task[c].apply_ret # None
    /\ LET r == task[c].apply_ret[1]
           tr == task[c].group_trace
       IN /\ r.deleted = 0
          /\ r.archived > 0
          /\ r.errors = <<DELETE>>
          /\ \E k, j \in DOMAIN tr :
               /\ k < j
               /\ tr[k].action = DELETE /\ tr[k].raised
               /\ tr[j].action = ARCHIVE /\ ~tr[j].raised

\* identify_cleanup_candidates has returned to the cycle of c
IdentifyReturned(c) ==
  /\ task[c].op = "cycle"
  /\ task[c].health_before # None
  /\ task[c].pc \in {"apply", "health_after", "log", "done"}

\* C4: a failed sub-scan does not abort identification.  The list returned
\* holds no candidate of a failed scan and every candidate of each scan that
\* succeeded, and nothing else.
C4_ScanFailureIsolated ==
  \A c \in Callers :
    IdentifyReturned(c) =>
      LET found == task[c].identified
      IN \A s \in ScanNames :
           IF task[c].scans[s].status = "failed"
           THEN \A k \in DOMAIN found : found[k].reason # s
           ELSE /\ Range(task[c].scans[s].rows) \subseteq Range(found)
                /\ Cardinality({k \in DOMAIN found : found[k].reason = s})
                     = Len(task[c].scans[s].rows)

\* the isolated scan failed, a later scan succeeded and its candidates are
\* in the list
C4_Witness ==
  \E c \in Callers :
    /\ IdentifyReturned(c)
    /\ task[c].scans["isolated"].status = "failed"
    /\ task[c].scans["stale"].status = "ok"
    /\ task[c].scans["stale"].rows # <<>>
    /\ task[c].scans["low_relevance"].status = "failed"
    /\ task[c].identified # <<>>

\* a call of c has ended by returning a CleanupResults
Returned(c) == task[c].pc = "done" /\ task[c].outcome = "returned"

ScanFailedIn(t) == \E s \in ScanNames : t.scans[s].status = "failed"

GroupFailedIn(t) ==
  \E k \in DOMAIN t.group_trace :
    t.group_trace[k].raised /\ t.group_trace[k].action # MERGE

PairFailedIn(t) ==
  \E k \in DOMAIN t.group_trace :
    t.group_trace[k].raised /\ t.group_trace[k].action = MERGE

\* C5 as stated: whenever a sub-scan, an action group or a merge pair failed,
\* a result that is returned has a non-empty errors list.
C5_AsClaimed ==
  \A c \in Callers :
    (Returned(c) /\ (ScanFailedIn(task[c]) \/ GroupFailedIn(task[c])
                     \/ PairFailedIn(task[c])))
      => task[c].ret[1].errors # <<>>

\* C5 (amended): the failure of a Delete, Archive or Update group and the
\* failure of a health query are never silent: a returned result has a
\* non-empty errors list exactly when such a group failed, and a cycle whose
\* health query failed ends in a thrown error without a result.  A failed
\* sub-scan or merge pair is only logged and leaves errors as it is.
C5_FailuresReported ==
  \A c \in Callers :
    /\ Returned(c) =>
         /\ task[c].ret # None
         /\ (task[c].ret[1].errors # <<>>) <=> GroupFailedIn(task[c])
    /\ (task[c].pc = "done" /\ task[c].op = "cycle"
          /\ ({task[c].before_answer, task[c].after_answer}
                \cap {"empty", "raise"} # {}))
         => (task[c].outcome = "raised" /\ task[c].ret = None)

\* a cycle with a failed sub-scan and a failed group returned a result that
\* names the group
C5_Witness ==
  \E c \in Callers :
    /\ Returned(c)
    /\ task[c].op = "cycle"
    /\ ScanFailedIn(task[c])
    /\ GroupFailedIn(task[c])
    /\ task[c].ret[1].errors # <<>>

\* C6: the cycle hands at most max_candidates_per_cycle candidates to
\* apply_cleanup_actions, and they are the head of the priority-sorted list:
\* no candidate left out has a higher priority than one that is applied.
C6_TruncationKeepsHighest ==
  \A c \in Callers :
    (task[c].op = "cycle" /\ task[c].apply_invoked) =>
      LET found == task[c].identified
          applied == task[c].applied
          n == Len(applied)
      IN /\ n <= max_candidates_per_cycle
         /\ n = Min(Len(found), max_candidates_per_cycle)
         /\ \A k \in 1..n : applied[k] = found[k]
         /\ \A k \in (n + 1)..Len(found) :
              \A j \in 1..n : found[k].priority <= applied[j].priority

\* more candidates than the cap were found, and one of those left out has a
\* lower priority than the applied ones
C6_Witness ==
  \E c \in Callers :
    /\ task[c].op = "cycle"
    /\ task[c].apply_invoked
    /\ Len(task[c].identified) > max_candidates_per_cycle
    /\ Len(task[c].applied) = max_candidates_per_cycle
    /\ task[c].identified[Len(task[c].identified)].priority
         < task[c].applied[Len(task[c].applied)].priority

\* the candidates of priority p, in the order of seq
RECURSIVE OfPriority(_, _)
OfPriority(seq, p) ==
  IF seq = <<>> THEN <<>>
  ELSE (IF Head(seq).priority = p THEN <<Head(seq)>> ELSE <<>>)
       \o OfPriority(Tail(seq), p)

\* C7: the list returned by identify_cleanup_candidates is non-increasing by
\* priority, and candidates of one priority keep the order isolated, stale,
\* duplicate, low-relevance and, within a scan, the order of its rows,
\* in whichever order the sub-scans finished.
C7_SortedAndStable ==
  \A c \in Callers :
    IdentifyReturned(c) =>
      LET found == task[c].identified
          scanned == task[c].scans["isolated"].rows \o task[c].scans["stale"].rows
                     \o task[c].scans["duplicate"].rows
                     \o task[c].scans["low_relevance"].rows
      IN /\ \A k \in 1..(Len(found) - 1) : found[k].priority >= found[k + 1].priority
         /\ \A p \in 1..4 : OfPriority(found, p) = OfPriority(scanned, p)

\* the list holds candidates of several priorities and two of one priority
\* that come from different scans
C7_Witness ==
  \E c \in Callers :
    /\ IdentifyReturned(c)
    /\ LET found == task[c].identified
       IN /\ \E k, j \in DOMAIN found : found[k].priority > found[j].priority
          /\ \E k \in 1..(Len(found) - 1) :
               /\ found[k].priority = found[k + 1].priority
               /\ found[k].reason = "isolated"
               /\ found[k + 1].reason = "duplicate"

IsMutation(q) == q \in CleanupAction

\* C8: a cycle that returns hands back the result of apply_cleanup_actions on
\* the truncated candidates; with no candidates it returns an all-zero result
\* with no errors, apply_cleanup_actions is not called and the cycle has
\* issued no mutation.
C8_CycleResult ==
  \A c \in Callers :
    (Returned(c) /\ task[c].op = "cycle") =>
      IF task[c].identified # <<>>
      THEN /\ task[c].apply_invoked
           /\ task[c].applied = task[c].candidates
           /\ task[c].ret = task[c].apply_ret
      ELSE /\ ~task[c].apply_invoked
           /\ task[c].ret = Some(CleanupResults)
           /\ \A k \in DOMAIN task[c].issued : ~IsMutation(task[c].issued[k])

\* a cycle returned the counts of an application that changed the graph
C8_Witness ==
  \E c \in Callers :
    /\ Returned(c)
    /\ task[c].op = "cycle"
    /\ task[c].apply_invoked
    /\ task[c].ret[1].deleted > 0
    /\ task[c].ret[1].errors # <<>>

\* C9: a health query that returns no rows is a hard failure: the cycle ends
\* in an exception without a result, and when it was the 'before' query the
\* cycle has issued nothing but that query.
C9_EmptyHealthRaises ==
  \A c \in Callers :
    /\ task[c].before_answer = "empty" =>
         /\ task[c].pc = "done"
         /\ task[c].outcome = "raised"
         /\ task[c].ret = None
         /\ task[c].issued = <<"health">>
         /\ task[c].health_before = None
    /\ task[c].after_answer = "empty" =>
         /\ task[c].pc = "done"
         /\ task[c].outcome = "raised"
         /\ task[c].ret = None
         /\ task[c].health_after = None

C9_Witness ==
  \E c \in Callers :
    /\ task[c].before_answer = "empty"
    /\ task[c].outcome = "raised"
    /\ ~_is_running

\* C10: a failed write of the metrics log is not an error of the cycle: the
\* cycle returns the result it had, with no entry added to errors, has set
\* last_cleanup (to a time not before its own start), and the scheduler is
\* Idle.
C10_LogFailureIgnored ==
  \A c \in Callers :
    task[c].log_answer = "raise" =>
      /\ Returned(c)
      /\ task[c].ret = Some(task[c].results)
      /\ task[c].apply_invoked => task[c].ret = task[c].apply_ret
      /\ ~task[c].apply_invoked => task[c].ret = Some(CleanupResults)
      /\ last_cleanup # None
      /\ last_cleanup[1] >= task[c].call_no
      /\ ~_is_running

C10_Witness ==
  \E c \in Callers :
    /\ task[c].log_answer = "raise"
    /\ Returned(c)
    /\ task[c].ret[1].archived > 0
    /\ last_cleanup # None

\* --------------------------------------------- WeightedRelevanceCalculator
RelevanceFactors == {"age", "connections", "access_count", "category", "importance"}

\* abs(total_weight - 1.0) > 0.01, in hundredths
WeightTolerance == 1

RECURSIVE SumOver(_, _)
SumOver(f, S) ==
  IF S = {} THEN 0
  ELSE LET x == CHOOSE y \in S : TRUE IN f[x] + SumOver(f, S \ {x})

\* sum(self.weights.values())
total_weight(weights) == SumOver(weights, DOMAIN weights)

\* weight dictionaries a caller passes (hundredths): the defaults spelled
\* out, all weight on one factor, two sums off by 0.02, a negative weight,
\* doubled weights, a dictionary with one key, an empty dictionary
SuppliedWeights ==
  { DefaultWeights,
    [f \in RelevanceFactors |-> IF f = "connections" THEN 100 ELSE 0],
    [DefaultWeights EXCEPT !.age = 32],
    [DefaultWeights EXCEPT !.age = 28],
    [age |-> -50, connections |-> 50, access_count |-> 50,
     category |-> 25, importance |-> 25],
    [f \in RelevanceFactors |-> 2 * DefaultWeights[f]],
    [f \in {"age"} |-> 100],
    [f \in {} |-> 0] }

\* the weights argument of the constructor: None or a dictionary
WeightsArguments == {None} \cup {Some(w) : w \in SuppliedWeights}

\* self.weights = weights or {defaults}: None and the empty dictionary are
\* both falsy
WeightsOrDefault(supplied) ==
  IF supplied = None \/ DOMAIN supplied[1] = {} THEN DefaultWeights ELSE supplied[1]

\* WeightedRelevanceCalculator.__init__: raises ValueError when the weights
\* kept do not sum to 1.0 within the tolerance
WeightedRelevanceCalculator(supplied) ==
  LET weights == WeightsOrDefault(supplied)
      off == total_weight(weights) - 100
  IN IF Max(off, 0 - off) > WeightTolerance
     THEN [status |-> "error", supplied |-> supplied, weights |-> weights, last |-> None]
     ELSE [status |-> "ready", supplied |-> supplied, weights |-> weights, last |-> None]

\* the keys of self.weights that calculate(node) reads
WeightsRead(node) ==
  {"connections", "access_count"}
    \cup (IF node.updated_at # None THEN {"age"} ELSE {})
    \cup (IF node.category = "professional" THEN {"category"} ELSE {})
    \cup (IF node.importance = "high" THEN {"importance"} ELSE {})

\* one call calculator.calculate(node): KeyError when a weight it reads is
\* missing, else the score
CalculateCall(weights, node) ==
  IF WeightsRead(node) \subseteq DOMAIN weights
  THEN [raised |-> FALSE, node |-> node,
        score |-> calculate([f \in RelevanceFactors |->
                               IF f \in DOMAIN weights THEN weights[f] ELSE 0], node)]
  ELSE [raised |-> TRUE, node |-> node, score |-> 0]

\* nodes handed to calculate: ages in days since updated_at (None: never
\* updated), connections and access counts below, at and above saturation
SampleNodes ==
  {MemoryNode(1, [content |-> "x", category |-> cat, importance |-> imp,
                  created_at |-> Some(2 * YearDays), updated_at |-> upd,
                  access_count |-> acc], conn) :
     cat \in {"general", "professional"}, imp \in {"low", "high"},
     upd \in {None, Some(0), Some(100), Some(YearDays + 35)},
     acc \in {0, AccessSaturation, 2 * AccessSaturation},
     conn \in {0, 5, ConnectionsSaturation, 2 * ConnectionsSaturation}}

CleanupIdle ==
  /\ graph = [i \in Ids |-> NodeProfiles[1]]
  /\ _is_running = FALSE
  /\ last_cleanup = None
  /\ clock = 0
  /\ task = [c \in Callers |-> IdleTask]

InitRelevance ==
  /\ CleanupIdle
  /\ calculator = NotConstructed
  /\ connection = NotConstructed
  /\ query_cache = NotConstructed
  /\ batch_run = NotConstructed
  /\ lazy_memory = NotConstructed

\* WeightedRelevanceCalculator(weights) is constructed
Construct ==
  /\ calculator.status = "none"
  /\ \E supplied \in WeightsArguments :
       calculator' = WeightedRelevanceCalculator(supplied)
  /\ UNCHANGED <<cleanup_vars, connection, query_cache, batch_run, lazy_memory>>

\* calculator.calculate(node) on a calculator whose construction succeeded
Calculate ==
  /\ calculator.status = "ready"
  /\ \E node \in SampleNodes :
       calculator' = [calculator EXCEPT
                        !.last = Some(CalculateCall(calculator.weights, node))]
  /\ UNCHANGED <<cleanup_vars, connection, query_cache, batch_run, lazy_memory>>

NextRelevance == Construct \/ Calculate

SpecRelevance == InitRelevance /\ [][NextRelevance]_vars

\* ------------------------------------------------------------ CircuitBreaker
MaxThreshold == 2
MaxRecovery == 2
MaxTime == 4
MaxRetries == 2
MaxBreakerCalls == 4

\* CircuitBreaker.__init__
CircuitBreaker(failure_threshold, recovery_timeout) ==
  [failure_threshold |-> failure_threshold, recovery_timeout |-> recovery_timeout,
   failure_count |-> 0, last_failure_time |-> None, state |-> "CLOSED"]

\* a reset test that ignores the time of the last failure
always_attempt_reset(cb, now) == TRUE

\* CircuitBreaker._should_attempt_reset at time now
_should_attempt_reset(cb, now) ==
  /\ cb.last_failure_time # None
  /\ now - cb.last_failure_time[1] >= cb.recovery_timeout

\* a success that resets the counter and leaves the state as it is
on_success_keeps_state(cb) == [cb EXCEPT !.failure_count = 0]

\* CircuitBreaker._on_success
_on_success(cb) == [cb EXCEPT !.failure_count = 0, !.state = "CLOSED"]

\* a failure that opens the circuit only above the threshold
on_failure_opens_late(cb, now) ==
  [cb EXCEPT !.failure_count = @ + 1,
             !.last_failure_time = Some(now),
             !.state = IF cb.failure_count + 1 > cb.failure_threshold
                       THEN "OPEN" ELSE @]

\* CircuitBreaker._on_failure at time now
_on_failure(cb, now) ==
  [cb EXCEPT !.failure_count = @ + 1,
             !.last_failure_time = Some(now),
             !.state = IF cb.failure_count + 1 >= cb.failure_threshold
                       THEN "OPEN" ELSE @]

\* what the wrapped function does: it returns, raises an Exception, or is
\* left by a BaseException that is no Exception (KeyboardInterrupt)
FuncOutcomes == {"return", "raise", "interrupt"}

\* CircuitBreaker.call at time now, the wrapped function ending as outcome
\* (with exception error): the breaker afterwards and how the call ended
call(cb, now, outcome, error) ==
  IF cb.state = "OPEN" /\ ~_should_attempt_reset(cb, now)
  THEN [breaker |-> cb, kind |-> "blocked", invocations |-> 0, trial |-> FALSE,
        error |-> "ServiceUnavailable", message |-> "Circuit breaker is OPEN"]
  ELSE LET trial == cb.state = "OPEN"
           entered == IF trial THEN [cb EXCEPT !.state = "HALF_OPEN"] ELSE cb
       IN CASE outcome = "return" ->
                 [breaker |-> _on_success(entered), kind |-> "returned",
                  invocations |-> 1, trial |-> trial,
                  error |-> "none", message |-> "none"]
            [] outcome = "raise" ->
                 [breaker |-> _on_failure(entered, now), kind |-> "raised",
                  invocations |-> 1, trial |-> trial,
                  error |-> error, message |-> "func"]
            [] outcome = "interrupt" ->
                 [breaker |-> entered, kind |-> "interrupted",
                  invocations |-> 1, trial |-> trial,
                  error |-> "BaseException", message |-> "func"]

\* what the properties read of the last call(): how it ended and the
\* breaker and time it found
NoCall == [kind |-> "none"]
CallRecord(cb, now, ended) ==
  [kind |-> ended.kind, invocations |-> ended.invocations, trial |-> ended.trial,
   error |-> ended.error, message |-> ended.message, before |-> cb, at |-> now]

\* ------------------------------------------------------------ ConnectionPool
\* ConnectionPool.__init__ (the metrics the model follows)
ConnectionPool ==
  [_connected |-> FALSE, driver |-> FALSE,
   queries_executed |-> 0, queries_failed |-> 0, reconnections |-> 0]

ReconnectAnswers == {"ok", "ServiceUnavailable", "Exception"}
RunAnswers == {"ok", "ServiceUnavailable", "SessionExpired", "Exception"}

\* _execute of execute_with_retry: ensure_connected (verify, reconnect),
\* then the session run; the pool afterwards and how _execute ended
_execute(pool, verified, reconnect, run) ==
  LET must_reconnect == ~pool._connected \/ ~pool.driver \/ ~verified
      reconnected ==
        IF ~must_reconnect THEN pool
        ELSE IF reconnect = "ok"
             THEN [pool EXCEPT !._connected = TRUE, !.driver = TRUE,
                               !.reconnections = @ + 1]
             ELSE [pool EXCEPT !._connected = FALSE]
  IN IF must_reconnect /\ reconnect # "ok"
     THEN [pool |-> reconnected, outcome |-> "raise", error |-> reconnect]
     ELSE CASE run = "ok" ->
                 [pool |-> [reconnected EXCEPT !.queries_executed = @ + 1],
                  outcome |-> "return", error |-> "none"]
            [] run \in {"ServiceUnavailable", "SessionExpired"} ->
                 [pool |-> [reconnected EXCEPT !._connected = FALSE],
                  outcome |-> "raise", error |-> run]
            [] run = "Exception" ->
                 [pool |-> [reconnected EXCEPT !.queries_failed = @ + 1],
                  outcome |-> "raise", error |-> run]

\* the local state of one execute_with_retry call
NoRetry ==
  [pc |-> "idle", max_retries |-> 0, attempt |-> 0, errors |-> <<>>,
   invocations |-> 0, outcome |-> "none", error |-> "none"]

\* 2 ** attempt
RECURSIVE Pow2(_)
Pow2(n) == IF n = 0 THEN 1 ELSE 2 * Pow2(n - 1)

InitConnection ==
  /\ CleanupIdle
  /\ calculator = NotConstructed
  /\ connection = NotConstructed
  /\ query_cache = NotConstructed
  /\ batch_run = NotConstructed
  /\ lazy_memory = NotConstructed

\* ConnectionPool(...) is constructed with its CircuitBreaker
NewConnectionPool ==
  /\ connection.status = "none"
  /\ \E failure_threshold \in 1..MaxThreshold, recovery_timeout \in 1..MaxRecovery :
       connection' = [status |-> "ready",
                      breaker |-> CircuitBreaker(failure_threshold, recovery_timeout),
                      now |-> 0, calls |-> 0, last |-> NoCall,
                      pool |-> ConnectionPool, retry |-> NoRetry]
  /\ UNCHANGED <<cleanup_vars, calculator, query_cache, batch_run, lazy_memory>>

\* time.time() advances
Tick ==
  /\ connection.status = "ready"
  /\ connection.now < MaxTime
  /\ connection' = [connection EXCEPT !.now = @ + 1]
  /\ UNCHANGED <<cleanup_vars, calculator, query_cache, batch_run, lazy_memory>>

\* circuit_breaker.call(func) by a caller of its own; the lock makes the
\* whole call one step
CircuitBreakerCall ==
  /\ connection.status = "ready"
  /\ connection.calls < MaxBreakerCalls
  /\ connection.retry.pc \in {"idle", "done"}
  /\ \E outcome \in FuncOutcomes :
       LET ended == call(connection.breaker, connection.now, outcome, "Exception")
       IN connection' = [connection EXCEPT
                           !.breaker = ended.breaker,
                           !.calls = @ + 1,
                           !.last = CallRecord(connection.breaker, connection.now, ended)]
  /\ UNCHANGED <<cleanup_vars, calculator, query_cache, batch_run, lazy_memory>>
\* execute_with_retry(query, params, max_retries) is called; with no retry
\* allowed the loop body never runs and the empty list is returned
CallExecuteWithRetry ==
  /\ connection.status = "ready"
  /\ connection.retry.pc = "idle"
  /\ \E max_retries \in 0..MaxRetries :
       connection' = [connection EXCEPT !.retry =
         IF max_retries = 0
         THEN [NoRetry EXCEPT !.pc = "done", !.outcome = "returned"]
         ELSE [NoRetry EXCEPT !.pc = "attempt", !.max_retries = max_retries]]
  /\ UNCHANGED <<cleanup_vars, calculator, query_cache, batch_run, lazy_memory>>

\* how the retry loop goes on after circuit_breaker.call(_execute) ended
AfterAttempt(retry, ended) ==
  IF ended.kind = "returned"
  THEN [retry EXCEPT !.pc = "done", !.outcome = "returned",
                     !.invocations = @ + ended.invocations]
  ELSE LET seen == [retry EXCEPT !.errors = Append(@, ended.error),
                                 !.invocations = @ + ended.invocations]
       IN IF ended.error = "ServiceUnavailable" /\ retry.attempt # retry.max_retries - 1
          THEN [seen EXCEPT !.pc = "sleep"]
          ELSE [seen EXCEPT !.pc = "done", !.outcome = "raised",
                            !.error = ended.error]

\* one iteration of the retry loop: circuit_breaker.call(_execute)
Attempt ==
  /\ connection.status = "ready"
  /\ connection.retry.pc = "attempt"
  /\ connection.calls < MaxBreakerCalls
  /\ \E verified \in BOOLEAN, reconnect \in ReconnectAnswers, run \in RunAnswers :
       LET executed == _execute(connection.pool, verified, reconnect, run)
           ended == call(connection.breaker, connection.now,
                         executed.outcome, executed.error)
       IN connection' = [connection EXCEPT
            !.breaker = ended.breaker,
            !.calls = @ + 1,
            !.last = CallRecord(connection.breaker, connection.now, ended),
            !.pool = IF ended.invocations = 0 THEN @ ELSE executed.pool,
            !.retry = AfterAttempt(connection.retry, ended)]
  /\ UNCHANGED <<cleanup_vars, calculator, query_cache, batch_run, lazy_memory>>

\* time.sleep(2 ** attempt) between two attempts
Backoff ==
  /\ connection.status = "ready"
  /\ connection.retry.pc = "sleep"
  /\ connection.now + Pow2(connection.retry.attempt) <= MaxTime
  /\ connection' = [connection EXCEPT
                      !.now = @ + Pow2(connection.retry.attempt),
                      !.retry = [@ EXCEPT !.pc = "attempt", !.attempt = @ + 1]]
  /\ UNCHANGED <<cleanup_vars, calculator, query_cache, batch_run, lazy_memory>>

NextConnection ==
  \/ NewConnectionPool
  \/ Tick
  \/ CircuitBreakerCall
  \/ CallExecuteWithRetry
  \/ Attempt
  \/ Backoff

SpecConnection == InitConnection /\ [][NextConnection]_vars

\* ---------------------------------------------------------------- QueryCache
MaxCacheSize == 2
MaxCacheOps == 4
MaxCacheTime == 3

CacheKeys == {"k1", "k2", "k3"}
CacheValues == {"v1", "v2"}

\* QueryCache.__init__: _cache and _timestamps are kept as one sequence of
\* entries in dictionary (insertion) order; ttl_seconds is short or longer
\* than the time the model runs
QueryCache(max_size, ttl_seconds) ==
  [status |-> "ready", max_size |-> max_size, ttl_seconds |-> ttl_seconds,
   entries |-> <<>>, hits |-> 0, misses |-> 0,
   now |-> 0, ops |-> 0, last |-> [op |-> "none"]]

CachedKeys(entries) == {entries[k].key : k \in DOMAIN entries}

\* position of key in the dictionary
IndexOf(entries, key) == CHOOSE k \in DOMAIN entries : entries[k].key = key

\* del self._cache[key]; del self._timestamps[key]
Without(entries, key) == SelectSeq(entries, LAMBDA e : e.key # key)

\* min(self._timestamps, key=self._timestamps.get): the first key, in
\* dictionary order, of the smallest timestamp
Oldest(entries) ==
  LET k == CHOOSE i \in DOMAIN entries :
             /\ \A j \in DOMAIN entries : entries[i].timestamp <= entries[j].timestamp
             /\ \A j \in DOMAIN entries :
                  entries[j].timestamp = entries[i].timestamp => i <= j
  IN entries[k].key

\* QueryCache.get at time now, as operation number op: the cache afterwards
\* and the value returned.  used is the number of the last operation that
\* read or wrote the entry (read by the properties only).
get(cache, key, now, op) ==
  IF key \in CachedKeys(cache.entries)
  THEN LET k == IndexOf(cache.entries, key)
       IN IF now - cache.entries[k].timestamp < cache.ttl_seconds
          THEN [cache |-> [cache EXCEPT !.hits = @ + 1, !.entries[k].used = op],
                result |-> Some(cache.entries[k].value)]
          ELSE [cache |-> [cache EXCEPT !.entries = Without(@, key), !.misses = @ + 1],
                result |-> None]
  ELSE [cache |-> [cache EXCEPT !.misses = @ + 1], result |-> None]

\* QueryCache.set at time now, as operation number op
set(cache, key, value, now, op) ==
  LET kept == IF Len(cache.entries) >= cache.max_size
                 /\ key \notin CachedKeys(cache.entries)
              THEN Without(cache.entries, Oldest(cache.entries))
              ELSE cache.entries
      entry == [key |-> key, value |-> value, timestamp |-> now, used |-> op]
  IN [cache EXCEPT !.entries =
        IF key \in CachedKeys(kept)
        THEN [kept EXCEPT ![IndexOf(kept, key)] = entry]
        ELSE Append(kept, entry)]

InitCache ==
  /\ CleanupIdle
  /\ calculator = NotConstructed
  /\ connection = NotConstructed
  /\ query_cache = NotConstructed
  /\ batch_run = NotConstructed
  /\ lazy_memory = NotConstructed

\* QueryCache(max_size, ttl_seconds) is constructed
NewQueryCache ==
  /\ query_cache.status = "none"
  /\ \E max_size \in 1..MaxCacheSize, ttl_seconds \in {2, MaxCacheTime + 1} :
       query_cache' = QueryCache(max_size, ttl_seconds)
  /\ UNCHANGED <<cleanup_vars, calculator, connection, batch_run, lazy_memory>>

\* time.time() advances
CacheTick ==
  /\ query_cache.status = "ready"
  /\ query_cache.now < MaxCacheTime
  /\ query_cache' = [query_cache EXCEPT !.now = @ + 1]
  /\ UNCHANGED <<cleanup_vars, calculator, connection, batch_run, lazy_memory>>

\* cache.get(key)
CacheGet ==
  /\ query_cache.status = "ready"
  /\ query_cache.ops < MaxCacheOps
  /\ \E key \in CacheKeys :
       LET got == get(query_cache, key, query_cache.now, query_cache.ops + 1)
       IN query_cache' = [got.cache EXCEPT
                            !.ops = @ + 1,
                            !.last = [op |-> "get", key |-> key, result |-> got.result]]
  /\ UNCHANGED <<cleanup_vars, calculator, connection, batch_run, lazy_memory>>

\* cache.set(key, value)
CacheSet ==
  /\ query_cache.status = "ready"
  /\ query_cache.ops < MaxCacheOps
  /\ \E key \in CacheKeys, value \in CacheValues :
       query_cache' = [set(query_cache, key, value, query_cache.now, query_cache.ops + 1)
                         EXCEPT !.ops = @ + 1,
                                !.last = [op |-> "set", key |-> key, result |-> None]]
  /\ UNCHANGED <<cleanup_vars, calculator, connection, batch_run, lazy_memory>>

NextCache == NewQueryCache \/ CacheTick \/ CacheGet \/ CacheSet

SpecCache == InitCache /\ [][NextCache]_vars

\* ------------------------------------------------------------ BatchProcessor
MaxItems == 5
MaxBatchSize == 2

\* items[i:i + batch_size], i counted from 0; the items are 1..total_items
Batch(total_items, i, batch_size) ==
  [k \in 1..(Min(total_items, i + batch_size) - i) |-> i + k]

\* batch_size or self.batch_size: None and 0 are both falsy
BatchSizeOrDefault(batch_size, default) ==
  IF batch_size = None \/ batch_size[1] = 0 THEN default ELSE batch_size[1]

\* the locals of process_in_batches before the loop
StartBatches(total_items, batch_size) ==
  [status |-> "running", total_items |-> total_items, batch_size |-> batch_size,
   i |-> 0, processed |-> 0, failed |-> 0, batch_times |-> 0,
   attempted |-> <<>>, result |-> None]

\* a loop that gives up at the first batch that raises
BatchRaisedStops(run, batch) ==
  [run EXCEPT !.failed = @ + Len(batch),
              !.attempted = Append(@, [batch |-> batch, ok |-> FALSE]),
              !.i = run.total_items]

\* except Exception: failed += len(batch), and the loop goes on
BatchRaised(run, batch) ==
  [run EXCEPT !.failed = @ + Len(batch),
              !.attempted = Append(@, [batch |-> batch, ok |-> FALSE]),
              !.i = @ + run.batch_size]

\* the batch went through: processed += len(batch), one more batch time
BatchProcessed(run, batch) ==
  [run EXCEPT !.processed = @ + Len(batch),
              !.batch_times = @ + 1,
              !.attempted = Append(@, [batch |-> batch, ok |-> TRUE]),
              !.i = @ + run.batch_size]

\* what a batch meets: processor_func raises, execute_with_retry raises, or
\* both go through
BatchAnswers == {"ok", "processor_raises", "execute_raises"}

InitBatch ==
  /\ CleanupIdle
  /\ calculator = NotConstructed
  /\ connection = NotConstructed
  /\ query_cache = NotConstructed
  /\ batch_run = NotConstructed
  /\ lazy_memory = NotConstructed

\* process_in_batches(items, processor_func, batch_size) is called on a
\* BatchProcessor constructed with batch_size default
CallProcessInBatches ==
  /\ batch_run.status = "none"
  /\ \E total_items \in 0..MaxItems, default \in 1..MaxBatchSize,
        batch_size \in {None} \cup {Some(n) : n \in 0..MaxBatchSize} :
       batch_run' = StartBatches(total_items, BatchSizeOrDefault(batch_size, default))
  /\ UNCHANGED <<cleanup_vars, calculator, connection, query_cache, lazy_memory>>

\* one iteration of the loop over range(0, total_items, batch_size)
ProcessBatch ==
  /\ batch_run.status = "running"
  /\ batch_run.i < batch_run.total_items
  /\ \E answer \in BatchAnswers :
       LET batch == Batch(batch_run.total_items, batch_run.i, batch_run.batch_size)
       IN batch_run' = IF answer = "ok"
                       THEN BatchProcessed(batch_run, batch)
                       ELSE BatchRaised(batch_run, batch)
  /\ UNCHANGED <<cleanup_vars, calculator, connection, query_cache, lazy_memory>>

\* the loop is over: the statistics dictionary is returned
ReturnBatches ==
  /\ batch_run.status = "running"
  /\ batch_run.i >= batch_run.total_items
  /\ batch_run' = [batch_run EXCEPT
                     !.status = "done",
                     !.result = Some([total_items |-> batch_run.total_items,
                                      processed |-> batch_run.processed,
                                      failed |-> batch_run.failed,
                                      batches |-> batch_run.batch_times])]
  /\ UNCHANGED <<cleanup_vars, calculator, connection, query_cache, lazy_memory>>

NextBatch == CallProcessInBatches \/ ProcessBatch \/ ReturnBatches

SpecBatch == InitBatch /\ [][NextBatch]_vars

\* ------------------------------------------------- relevance memoization
\* WeightedRelevanceCalculator.calculate is wrapped by lru_cache(maxsize=1000):
\* the wrapper keeps the scores by argument, most recently used last, for as
\* long as the process lives.  LivingMemorySystem holds an own _node_cache
\* dictionary that no method reads or writes.
MaxCycles == 3

lru_maxsize == 1000

\* nodes the scans hand to calculate
ScoredNodes == {MemoryNode(i, NodeProfiles[i], NodeProfiles[i].connections) : i \in 1..3}

\* one call through the lru_cache wrapper: a stored score is served and
\* moved to the recent end; otherwise the score is computed and stored, the
\* least recently used entry leaving a full cache.  cycle tags the entry
\* with the cycle that computed it.
lru_cache_calculate(calc, node) ==
  IF \E k \in DOMAIN calc.cache : calc.cache[k].key = node
  THEN LET e == calc.cache[IndexOf(calc.cache, node)]
       IN [calc EXCEPT !.cache = Append(Without(calc.cache, node), e),
                       !.last = Some([node |-> node, score |-> e.score,
                                      hit |-> TRUE, computed_in |-> e.cycle])]
  ELSE LET score == calculate(calc.weights, node)
           kept == IF Len(calc.cache) >= lru_maxsize THEN Tail(calc.cache)
                   ELSE calc.cache
       IN [calc EXCEPT !.cache = Append(kept, [key |-> node, score |-> score,
                                               cycle |-> calc.cycle]),
                       !.last = Some([node |-> node, score |-> score,
                                      hit |-> FALSE, computed_in |-> calc.cycle])]

InitMemo ==
  /\ CleanupIdle
  /\ calculator = NotConstructed
  /\ connection = NotConstructed
  /\ query_cache = NotConstructed
  /\ batch_run = NotConstructed
  /\ lazy_memory = NotConstructed

\* LivingMemorySystem(connection): the default calculator and an empty
\* _node_cache
NewLivingMemorySystem ==
  /\ calculator.status = "none"
  /\ calculator' = [status |-> "ready", weights |-> DefaultWeights, cache |-> <<>>,
                    _node_cache |-> <<>>, cycle |-> 0, running |-> FALSE,
                    last |-> None]
  /\ UNCHANGED <<cleanup_vars, connection, query_cache, batch_run, lazy_memory>>

\* run_cleanup_cycle starts: the guard is passed and _is_running set
MemoCycleStart ==
  /\ calculator.status = "ready"
  /\ ~calculator.running
  /\ calculator.cycle < MaxCycles
  /\ calculator' = [calculator EXCEPT !.running = TRUE, !.cycle = @ + 1,
                                      !.last = None]
  /\ UNCHANGED <<cleanup_vars, connection, query_cache, batch_run, lazy_memory>>

\* a scan of the cycle scores one node of its rows
MemoCalculate ==
  /\ calculator.status = "ready"
  /\ calculator.running
  /\ \E node \in ScoredNodes :
       calculator' = lru_cache_calculate(calculator, node)
  /\ UNCHANGED <<cleanup_vars, connection, query_cache, batch_run, lazy_memory>>

\* run_cleanup_cycle ends: the finally clause resets _is_running
MemoCycleEnd ==
  /\ calculator.status = "ready"
  /\ calculator.running
  /\ calculator' = [calculator EXCEPT !.running = FALSE]
  /\ UNCHANGED <<cleanup_vars, connection, query_cache, batch_run, lazy_memory>>

NextMemo == NewLivingMemorySystem \/ MemoCycleStart \/ MemoCalculate \/ MemoCycleEnd

SpecMemo == InitMemo /\ [][NextMemo]_vars

\* ----------------------------------------------------------- LazyMemory
\* run_server hands the tools a LazyMemory: every tool call is an
\* async_wrapper coroutine of the server's event loop that first awaits
\* _ensure_init.  A connection is named by the number of the
\* Neo4jConnection object, a Neo4jMemory by the connection it was built on.
MaxToolCalls == 3

ToolCalls == 1..MaxToolCalls

IdleCall == [pc |-> "idle", connection |-> None, memory |-> None, outcome |-> "none"]

\* LazyMemory.__init__; created counts the Neo4jConnection objects made by
\* _initialise, connected holds those whose connect() went through
LazyMemory(enable_fulltext_index) ==
  [status |-> "ready", enable_fulltext_index |-> enable_fulltext_index,
   _memory |-> None, _connection |-> None, _initialized |-> FALSE,
   created |-> 0, connected |-> {},
   calls |-> [c \in ToolCalls |-> IdleCall]]

\* _initialise up to its first await: a new Neo4jConnection, connect() is
\* awaited
_initialise(lm, c) ==
  [lm EXCEPT !.created = @ + 1,
             !.calls[c].pc = "connect",
             !.calls[c].connection = Some(lm.created + 1)]

\* the rest of async_wrapper once _ensure_init returned memory: the method
\* of the memory layer is awaited
CallMethod(lm, c, memory) ==
  [lm EXCEPT !.calls[c].pc = "method", !.calls[c].memory = memory]

\* _ensure_init up to its first await
_ensure_init(lm, c) ==
  IF ~lm._initialized THEN _initialise(lm, c) ELSE CallMethod(lm, c, lm._memory)

\* _initialise returned to _ensure_init: the pair is stored, the flag set
\* and self._memory returned to the wrapper
Initialised(lm, c) ==
  LET made == lm.calls[c].connection
  IN CallMethod([lm EXCEPT !._connection = made, !._memory = made,
                           !._initialized = TRUE], c, made)

InitLazy ==
  /\ CleanupIdle
  /\ calculator = NotConstructed
  /\ connection = NotConstructed
  /\ query_cache = NotConstructed
  /\ batch_run = NotConstructed
  /\ lazy_memory = NotConstructed

\* lazy_memory = LazyMemory()
NewLazyMemory ==
  /\ lazy_memory.status = "none"
  /\ \E enable_fulltext_index \in BOOLEAN :
       lazy_memory' = LazyMemory(enable_fulltext_index)
  /\ UNCHANGED <<cleanup_vars, calculator, connection, query_cache, batch_run>>

\* a tool calls a method of lazy_memory: async_wrapper runs to its first
\* await
ToolCall(c) ==
  /\ lazy_memory.status = "ready"
  /\ lazy_memory.calls[c].pc = "idle"
  /\ lazy_memory' = _ensure_init(lazy_memory, c)
  /\ UNCHANGED <<cleanup_vars, calculator, connection, query_cache, batch_run>>

\* connection.connect() is over: its exception leaves _initialise,
\* _ensure_init and the wrapper; otherwise the memory layer is built and,
\* if configured, the fulltext index awaited
ConnectDone(c) ==
  /\ lazy_memory.status = "ready"
  /\ lazy_memory.calls[c].pc = "connect"
  /\ \/ lazy_memory' = [lazy_memory EXCEPT !.calls[c].pc = "done",
                                            !.calls[c].outcome = "raised"]
     \/ LET lm == [lazy_memory EXCEPT
                     !.connected = @ \cup {lazy_memory.calls[c].connection[1]}]
        IN lazy_memory' = IF lm.enable_fulltext_index
                          THEN [lm EXCEPT !.calls[c].pc = "index"]
                          ELSE Initialised(lm, c)
  /\ UNCHANGED <<cleanup_vars, calculator, connection, query_cache, batch_run>>

\* memory.create_fulltext_index() is over, its exception suppressed
IndexDone(c) ==
  /\ lazy_memory.status = "ready"
  /\ lazy_memory.calls[c].pc = "index"
  /\ lazy_memory' = Initialised(lazy_memory, c)
  /\ UNCHANGED <<cleanup_vars, calculator, connection, query_cache, batch_run>>

\* the method of the memory layer is over
MethodDone(c) ==
  /\ lazy_memory.status = "ready"
  /\ lazy_memory.calls[c].pc = "method"
  /\ \E outcome \in {"returned", "raised"} :
       lazy_memory' = [lazy_memory EXCEPT !.calls[c].pc = "done",
                                         !.calls[c].outcome = outcome]
  /\ UNCHANGED <<cleanup_vars, calculator, connection, query_cache, batch_run>>

NextLazy ==
  \/ NewLazyMemory
  \/ \E c \in ToolCalls : ToolCall(c) \/ ConnectDone(c) \/ IndexDone(c) \/ MethodDone(c)

SpecLazy == InitLazy /\ [][NextLazy]_vars

\* ------------------------------------------------------------------- C11
\* a direct call of identify_cleanup_candidates by c has returned
Identified(c) == task[c].op = "identify" /\ task[c].pc = "done"

FailedScans(c) == {s \in ScanNames : task[c].scans[s].status = "failed"}

\* two Learning nodes of one content that the duplicate query cannot order:
\* equal updated_at and equal access_count
TiedDuplicates(g) ==
  \E i, j \in Learning(g) :
    /\ i # j
    /\ g[i].content = g[j].content
    /\ g[i].updated_at = g[j].updated_at
    /\ g[i].access_count = g[j].access_count

\* the candidates of a list whose identity does not hang on the row order
OrderFree(g, cands) ==
  {cands[k] : k \in {n \in DOMAIN cands :
                       cands[n].reason # "duplicate" \/ ~TiedDuplicates(g)}}

FullScore == 100 * Unit

\* C12 as stated: with every weight set the constructor accepts, calculate
\* returns a score s with 0.0 <= s <= 1.0 for every node.
C12_AsClaimed ==
  (calculator.status = "ready" /\ calculator.last # None) =>
    LET scored == calculator.last[1]
    IN /\ ~scored.raised
       /\ 0 <= scored.score
       /\ scored.score <= FullScore

\* ------------------------------------------------------------------- C13
\* C13 as stated: a caller-supplied weight set whose sum is off 1.0 by more
\* than 0.01 makes the constructor fail; it is never replaced by the
\* defaults.
C13_AsClaimed ==
  (calculator.status # "none" /\ calculator.supplied # None) =>
    LET off == total_weight(calculator.supplied[1]) - 100
    IN Max(off, 0 - off) > WeightTolerance => calculator.status = "error"

\* ------------------------------------------------------------------- C14
\* node with its connections and access_count cut at the saturation points
Saturated(node) ==
  [node EXCEPT !.connections = Min(@, ConnectionsSaturation),
               !.access_count = Min(@, AccessSaturation)]

\* C14: with the default weights, a node with no connections, no accesses,
\* no updated_at, category general and importance low scores exactly 0.0; a
\* node with connections >= 10, access_count >= 50, updated now, category
\* professional and importance high scores at least 0.95; and the score of
\* any node is the score of the node with connections cut at 10 and
\* access_count cut at 50.
C14_ScoreRange ==
  (calculator.status = "ready" /\ calculator.supplied = None
     /\ calculator.last # None) =>
    LET scored == calculator.last[1]
        node == scored.node
    IN /\ ~scored.raised
       /\ (/\ node.connections = 0 /\ node.access_count = 0
            /\ node.updated_at = None /\ node.category = "general"
            /\ node.importance = "low") => scored.score = 0
       /\ (/\ node.connections >= ConnectionsSaturation
            /\ node.access_count >= AccessSaturation
            /\ node.updated_at = Some(0) /\ node.category = "professional"
            /\ node.importance = "high") => scored.score >= 95 * Unit
       /\ scored.score = CalculateCall(DefaultWeights, Saturated(node)).score

\* the default calculator scored a node with connections above 10 and
\* access_count above 50 whose other factors do not saturate
C14_Witness ==
  /\ calculator.status = "ready"
  /\ calculator.supplied = None
  /\ calculator.last # None
  /\ calculator.last[1].node.connections > ConnectionsSaturation
  /\ calculator.last[1].node.access_count > AccessSaturation
  /\ calculator.last[1].node.updated_at = None
  /\ calculator.last[1].score = 50 * Unit

\* ------------------------------------------------------------------- C15
\* the step is one CircuitBreaker.call, direct or from the retry loop
BreakerCallStep ==
  /\ connection.status = "ready"
  /\ connection'.calls = connection.calls + 1

\* the last call() ended in a way call() handles: the function returned or
\* raised an Exception, or the call was refused
CallCompleted == connection.last.kind \in {"returned", "raised", "blocked"}

\* C15: a call whose function raised increments failure_count, a call whose
\* function returned resets failure_count to 0 and the state to CLOSED, and
\* after a completed call the state is OPEN if and only if
\* failure_count >= failure_threshold.
C15_OpensAtThreshold ==
  /\ [][BreakerCallStep =>
          /\ connection'.last.kind = "raised" =>
                connection'.breaker.failure_count
                  = connection.breaker.failure_count + 1
          /\ connection'.last.kind = "returned" =>
                /\ connection'.breaker.failure_count = 0
                /\ connection'.breaker.state = "CLOSED"]_vars
  /\ []((connection.status = "ready" /\ connection.last.kind # "interrupted") =>
          (connection.breaker.state = "OPEN"
             <=> connection.breaker.failure_count
                   >= connection.breaker.failure_threshold))

\* the second failure in a row opened a breaker of threshold 2
C15_Witness ==
  /\ connection.status = "ready"
  /\ connection.last.kind = "raised"
  /\ connection.last.before.state = "CLOSED"
  /\ connection.last.before.failure_count = 1
  /\ connection.breaker.failure_threshold = 2
  /\ connection.breaker.failure_count = 2
  /\ connection.breaker.state = "OPEN"

\* ------------------------------------------------------------------- C16
\* the breaker is OPEN and less than recovery_timeout has passed since the
\* last failure
OpenAndWaiting ==
  /\ connection.status = "ready"
  /\ connection.breaker.state = "OPEN"
  /\ connection.breaker.last_failure_time # None
  /\ connection.now - connection.breaker.last_failure_time[1]
       < connection.breaker.recovery_timeout

\* C16: a call on an OPEN breaker before recovery_timeout has elapsed raises
\* ServiceUnavailable("Circuit breaker is OPEN"), does not invoke the wrapped
\* function (so nothing of the pool changes) and leaves state, failure_count
\* and last_failure_time as they were.
C16_OpenBlocks ==
  [][(BreakerCallStep /\ OpenAndWaiting) =>
       /\ connection'.last.kind = "blocked"
       /\ connection'.last.error = "ServiceUnavailable"
       /\ connection'.last.message = "Circuit breaker is OPEN"
       /\ connection'.last.invocations = 0
       /\ connection'.breaker = connection.breaker
       /\ connection'.pool = connection.pool]_vars

\* a call was refused after some, but not enough, time had passed since the
\* failure that opened the breaker
C16_Witness ==
  /\ connection.status = "ready"
  /\ connection.last.kind = "blocked"
  /\ connection.last.at > connection.last.before.last_failure_time[1]
  /\ connection.breaker.state = "OPEN"

\* ------------------------------------------------------------------- C17
\* the breaker is OPEN and recovery_timeout has passed since the last failure
OpenAndRecovered ==
  /\ connection.status = "ready"
  /\ connection.breaker.state = "OPEN"
  /\ connection.breaker.last_failure_time # None
  /\ connection.now - connection.breaker.last_failure_time[1]
       >= connection.breaker.recovery_timeout

\* C17: the first call on an OPEN breaker after recovery_timeout moves it to
\* HALF_OPEN and invokes the function once; when the function returns the
\* breaker is CLOSED with failure_count 0, when it raises an Exception the
\* breaker is OPEN again; no completed call leaves HALF_OPEN behind.
C17_HalfOpenTrial ==
  /\ [][(BreakerCallStep /\ OpenAndRecovered) =>
          /\ connection'.last.trial
          /\ connection'.last.invocations = 1
          /\ connection'.last.kind = "returned" =>
                /\ connection'.breaker.state = "CLOSED"
                /\ connection'.breaker.failure_count = 0
          /\ connection'.last.kind = "raised" =>
                connection'.breaker.state = "OPEN"]_vars
  /\ []((connection.status = "ready" /\ CallCompleted) =>
          connection.breaker.state # "HALF_OPEN")

\* a trial call succeeded and closed the breaker
C17_Witness ==
  /\ connection.status = "ready"
  /\ connection.last.kind = "returned"
  /\ connection.last.trial
  /\ connection.last.before.state = "OPEN"
  /\ connection.breaker.state = "CLOSED"
  /\ connection.breaker.failure_count = 0

\* ------------------------------------------------------------------- C18
\* execute_with_retry has ended and every iteration of its loop ended with
\* ServiceUnavailable
AllAttemptsUnavailable ==
  /\ connection.status = "ready"
  /\ connection.retry.pc = "done"
  /\ connection.retry.max_retries > 0
  /\ Len(connection.retry.errors) = connection.retry.attempt + 1
  /\ \A k \in DOMAIN connection.retry.errors :
       connection.retry.errors[k] = "ServiceUnavailable"

\* C18 as stated: when every attempt fails with ServiceUnavailable, at most
\* max_retries attempts are made, ServiceUnavailable is raised to the caller
\* and queries_failed is above 0 afterwards.
C18_AsClaimed ==
  AllAttemptsUnavailable =>
    /\ Len(connection.retry.errors) <= connection.retry.max_retries
    /\ connection.retry.outcome = "raised"
    /\ connection.retry.error = "ServiceUnavailable"
    /\ connection.pool.queries_failed > 0

\* ------------------------------------------------------------------- C19
\* the entry used (read by a hit of get, or written by set) longest ago
LeastRecentlyUsed(entries) ==
  LET k == CHOOSE i \in DOMAIN entries :
             \A j \in DOMAIN entries : entries[i].used <= entries[j].used
  IN entries[k].key

\* the step is a set() of a key the full cache does not hold
SetOnFullCache ==
  /\ query_cache.status = "ready"
  /\ query_cache'.ops = query_cache.ops + 1
  /\ query_cache'.last.op = "set"
  /\ Len(query_cache.entries) >= query_cache.max_size
  /\ query_cache'.last.key \notin CachedKeys(query_cache.entries)

\* C19 as stated: a set() of a new key on a full cache evicts exactly one
\* entry, the least recently used one (a get() counts as a use), and the
\* cache never holds more than max_size entries.
C19_AsClaimed ==
  /\ [][SetOnFullCache =>
          CachedKeys(query_cache.entries) \ CachedKeys(query_cache'.entries)
            = {LeastRecentlyUsed(query_cache.entries)}]_vars
  /\ [](query_cache.status = "ready" =>
          Len(query_cache.entries) <= query_cache.max_size)

\* ------------------------------------------------------------------- C20
\* number of items in the attempted batches that ended as ok
RECURSIVE ItemsEnded(_, _)
ItemsEnded(attempted, ok) ==
  IF attempted = <<>> THEN 0
  ELSE (IF Head(attempted).ok = ok THEN Len(Head(attempted).batch) ELSE 0)
         + ItemsEnded(Tail(attempted), ok)

BatchesOf(total_items, batch_size) == (total_items + batch_size - 1) \div batch_size

\* C21 as stated: the 'batches' value returned is the number of batches the
\* input was split into, also when some batch failed.
C21_AsClaimed ==
  batch_run.status = "done" =>
    batch_run.result[1].batches
      = BatchesOf(batch_run.total_items, batch_run.batch_size)

\* ------------------------------------------------------------------- C22
\* the queries a cycle issues before it applies anything: the 'before'
\* health query, then the four scans
Preamble == <<"health">> \o Scans

\* C22: the queries of one cycle are issued in the order 'before' health
\* query, the scans of the identification, the mutations of the apply step
\* (only with candidates left after truncation to the cap), 'after' health
\* query, metrics log, each step starting after the one before it has
\* finished: no mutation before every scan has ended, the 'after' query
\* after apply_cleanup_actions has returned, the log after the 'after'
\* snapshot.
C22_StepOrder ==
  \A c \in Callers :
    task[c].op = "cycle" =>
      LET q == task[c].issued
          n == Len(q)
      IN /\ \A k \in DOMAIN q :
              /\ k <= Len(Preamble) => q[k] = Preamble[k]
              /\ k > Len(Preamble) => q[k] \in CleanupAction \cup {"health", "log"}
              /\ IsMutation(q[k]) =>
                   /\ \A j \in 1..(k - 1) : q[j] # "log" /\ (q[j] = "health" => j = 1)
                   /\ \A s \in ScanNames : task[c].scans[s].status # "pending"
                   /\ task[c].health_before # None
                   /\ task[c].apply_invoked
                   /\ task[c].applied = Truncate(task[c].identified)
                   /\ task[c].applied # <<>>
                   /\ Len(task[c].applied) <= max_candidates_per_cycle
              /\ (q[k] = "health" /\ k > 1) =>
                   /\ k > Len(Preamble)
                   /\ \A s \in ScanNames : task[c].scans[s].status # "pending"
                   /\ task[c].apply_invoked => task[c].apply_ret # None
                   /\ \A j \in (k + 1)..n : q[j] = "log"
              /\ q[k] = "log" =>
                   /\ k = n
                   /\ k > Len(Preamble) + 1
                   /\ q[k - 1] = "health"
                   /\ task[c].health_after # None
         /\ task[c].pc = "health_before" => q = <<"health">>
         /\ task[c].pc = "identify" => q = Preamble /\ task[c].health_before # None
         /\ task[c].pc = "apply" => IsMutation(q[n])
         /\ task[c].pc = "health_after" => q[n] = "health" /\ n > Len(Preamble)
         /\ task[c].pc = "log" => q[n] = "log"

\* a cycle went through all its steps, two mutations among them
C22_Witness ==
  \E c \in Callers :
    /\ task[c].op = "cycle"
    /\ task[c].pc = "done"
    /\ task[c].outcome = "returned"
    /\ Len(task[c].issued) = Len(Preamble) + 4
    /\ IsMutation(task[c].issued[Len(Preamble) + 1])
    /\ IsMutation(task[c].issued[Len(Preamble) + 2])

\* ------------------------------------------------------------------- C23
\* the relevance of the node of a candidate is below the threshold
BelowThreshold(node) == calculate(DefaultWeights, node) < relevance_threshold * Unit

\* C23: the candidates of a finished scan carry the action and priority of
\* the policy.  Isolated: (Delete, 3) unless importance is high, then
\* (Archive, 2).  Stale: (Delete, 4) when the relevance is below the
\* threshold, else (Archive, 1).  Low relevance: (Delete, 2) for exactly the
\* nodes with fewer than min_connections relationships whose relevance is
\* below the threshold.
C23_ScanPolicy ==
  \A c \in Callers :
    /\ task[c].scans["isolated"].status = "ok" =>
         \A k \in DOMAIN task[c].scans["isolated"].rows :
           LET cand == task[c].scans["isolated"].rows[k]
           IN IF cand.node.importance # "high"
              THEN cand.action = DELETE /\ cand.priority = 3
              ELSE cand.action = ARCHIVE /\ cand.priority = 2
    /\ task[c].scans["stale"].status = "ok" =>
         \A k \in DOMAIN task[c].scans["stale"].rows :
           LET cand == task[c].scans["stale"].rows[k]
           IN IF BelowThreshold(cand.node)
              THEN cand.action = DELETE /\ cand.priority = 4
              ELSE cand.action = ARCHIVE /\ cand.priority = 1
    /\ task[c].scans["low_relevance"].status = "ok" =>
         LET rows == task[c].scans["low_relevance"].rows
         IN /\ \A k \in DOMAIN rows :
                 /\ rows[k].action = DELETE /\ rows[k].priority = 2
                 /\ BelowThreshold(rows[k].node)
            /\ (task[c].op = "identify") =>
                 {rows[k].node.id : k \in DOMAIN rows}
                   = {i \in Learning(graph) :
                        /\ graph[i].connections < min_connections
                        /\ BelowThreshold(MemoryNode(i, graph[i], graph[i].connections))}

\* one identification in which the three scans took both branches of their
\* policies: an isolated node of high importance archived, a stale node
\* deleted, a low-connection node of sufficient relevance left out
C23_Witness ==
  \E c \in Callers :
    /\ task[c].op = "identify"
    /\ task[c].pc = "done"
    /\ \A s \in ScanNames : task[c].scans[s].status = "ok"
    /\ \E k \in DOMAIN task[c].scans["isolated"].rows :
         task[c].scans["isolated"].rows[k].action = ARCHIVE
    /\ \E k \in DOMAIN task[c].scans["isolated"].rows :
         task[c].scans["isolated"].rows[k].action = DELETE
    /\ \E k \in DOMAIN task[c].scans["stale"].rows :
         task[c].scans["stale"].rows[k].priority = 4
    /\ Len(task[c].scans["low_relevance"].rows) = 1

\* ------------------------------------------------------------------- C24
\* c waits for the answer to the merge query of one pair
MergingPair(c) ==
  /\ task[c].pc = "apply"
  /\ task[c].actions_map[task[c].gi].action = MERGE

\* positions of the merge candidates of a list that name a merge target
TargetedMerges(cands) ==
  {k \in DOMAIN cands : cands[k].action = MERGE /\ cands[k].similarity_target # None}

\* the merged count of the group of t as far as it has got: the local
\* merged_count, or results.merged once the group is over
MergedSoFar(t, gi) == IF t.gi = gi /\ t.pc = "apply" THEN t.merged_count ELSE t.results.merged

\* C24: each merge candidate is merged by a query of its own.  The answer
\* to one pair, an exception included, adds nothing to errors and does not
\* end the group: the next candidate that names a target is attempted.  The
\* count grows by one exactly when the pair was merged in the graph, so a
\* pair that raised or matched nothing and a candidate without a target are
\* not counted, and one query is issued per candidate that names a target.
C24_MergePerPair ==
  /\ [][\A c \in Callers :
          (MergingPair(c) /\ task'[c] # task[c]) =>
            LET t == task[c]
                cands == t.actions_map[t.gi].cands
                later == {k \in DOMAIN cands :
                            k > t.mi /\ cands[k].similarity_target # None}
            IN /\ MergedSoFar(task'[c], t.gi)
                    = t.merged_count + (IF graph' # graph THEN 1 ELSE 0)
               /\ task'[c].results.errors = t.results.errors
               /\ later # {} =>
                    /\ task'[c].pc = "apply"
                    /\ task'[c].gi = t.gi
                    /\ task'[c].mi = CHOOSE k \in later : \A j \in later : k <= j]_vars
  /\ [](\A c \in Callers :
          task[c].apply_ret # None =>
            /\ Occurrences(task[c].issued, MERGE)
                 = Cardinality(TargetedMerges(task[c].applied))
            /\ task[c].apply_ret[1].merged <= Cardinality(TargetedMerges(task[c].applied)))

\* of three merge candidates the first raised, the second had no target and
\* the third was merged: merged is 1 and errors is empty
C24_Witness ==
  \E c \in Callers :
    /\ task[c].apply_ret # None
    /\ Len(task[c].applied) = 3
    /\ Cardinality(TargetedMerges(task[c].applied)) = 2
    /\ \E k \in DOMAIN task[c].group_trace :
         /\ task[c].group_trace[k].action = MERGE
         /\ task[c].group_trace[k].raised
    /\ task[c].apply_ret[1].merged = 1
    /\ task[c].apply_ret[1].errors = <<>>

\* ------------------------------------------------------------------- C25
\* a and b are the two Learning nodes of g, they have the same content and
\* a was updated more recently than b
NewerTwin(g, a, b) ==
  /\ Learning(g) = {a, b}
  /\ a # b
  /\ g[a].content = g[b].content
  /\ g[a].updated_at # None
  /\ g[b].updated_at # None
  /\ g[a].updated_at[1] < g[b].updated_at[1]

\* the duplicate scan of such a graph yields one candidate: Merge b into a
C25_OneCandidate ==
  \A a, b \in Ids : \A ord \in RowOrders :
    NewerTwin(graph, a, b) =>
      _find_duplicate_nodes(graph, ord)
        = <<CleanupCandidate(MemoryNode(b, graph[b], 0), MERGE, "duplicate", 3, Some(a))>>

\* C25 as stated: with A and B of identical content and A updated more
\* recently, the duplicate scan emits exactly one Merge candidate, for B with
\* target A and priority 3, and applying that candidate (its query answered
\* without an exception) counts one merge and leaves B no longer present.
C25_AsClaimed ==
  /\ []C25_OneCandidate
  /\ [][\A c \in Callers :
          (/\ MergingPair(c)
           /\ task'[c] # task[c]
           /\ ~task'[c].pair_raised
           /\ LET cand == task[c].actions_map[task[c].gi].cands[task[c].mi]
              IN /\ cand.reason = "duplicate"
                 /\ NewerTwin(graph, cand.similarity_target[1], cand.node.id))
          => LET t == task[c]
                 b == t.actions_map[t.gi].cands[t.mi].node.id
             IN /\ MergedSoFar(task'[c], t.gi) = t.merged_count + 1
                /\ b \notin Learning(graph')]_vars

\* ------------------------------------------------------------------- C26
\* C26 as stated: the memo of relevance scores lives within one cleanup
\* cycle.  Between two cycles it is empty, a score served from it was
\* computed in the running cycle, and it holds no entry of an earlier cycle.
C26_AsClaimed ==
  calculator.status = "ready" =>
    /\ ~calculator.running => calculator.cache = <<>>
    /\ calculator.last # None /\ calculator.last[1].hit
         => calculator.last[1].computed_in = calculator.cycle
    /\ \A k \in DOMAIN calculator.cache :
         calculator.running => calculator.cache[k].cycle = calculator.cycle

\* ------------------------------------------------------------------- C27
\* the candidates of the sub-scans of c that did not fail, scan after scan
ScanMatches(c) == GatheredCandidates(task[c].scans)

\* a finished apply call issued the query of the candidate's action
Attempted(c, cand) ==
  (cand.action = MERGE => cand.similarity_target # None)
    => cand.action \in Range(task[c].issued)

\* C27: identification keeps one candidate for every match of every scan
\* that did not fail, so a node matched by several scans is a candidate
\* several times; and a finished apply call has issued the query of every
\* candidate's action, whatever else the call did to the same node.
C27_NoDeduplication ==
  \A c \in Callers :
    /\ task[c].pc \notin {"idle", "health_before", "identify"} /\ task[c].identified # <<>> =>
         /\ Len(task[c].identified) = Len(ScanMatches(c))
         /\ \A x \in Range(ScanMatches(c)) :
              Occurrences(task[c].identified, x) = Occurrences(ScanMatches(c), x)
    /\ task[c].apply_ret # None =>
         \A k \in DOMAIN task[c].applied : Attempted(c, task[c].applied[k])

\* a cycle applied a Delete and a Merge candidate of one node found by
\* different scans: the node was deleted, then the merge query was issued
C27_Witness ==
  \E c \in Callers :
    /\ task[c].op = "cycle"
    /\ task[c].apply_ret # None
    /\ \E k, j \in DOMAIN task[c].applied :
         /\ task[c].applied[k].node.id = task[c].applied[j].node.id
         /\ task[c].applied[k].action = DELETE
         /\ task[c].applied[j].action = MERGE
         /\ task[c].applied[k].reason # task[c].applied[j].reason
         /\ task[c].applied[k].node.id \notin Learning(graph)
    /\ DELETE \in Range(task[c].issued)
    /\ MERGE \in Range(task[c].issued)
    /\ task[c].apply_ret[1].deleted = 1
    /\ task[c].apply_ret[1].merged = 0

\* ------------------------------------------------------------------- C28
\* the Learning nodes of g without relationships, created more than 30 days
\* ago, of importance 'medium'
IsolatedOldMedium(g) ==
  {i \in Learning(g) : /\ g[i].connections = 0
                       /\ OlderThan(g[i].created_at, IsolatedMinAgeDays)
                       /\ g[i].importance = "medium"}

\* the candidates of a list for node i that the isolated scan made
IsolatedCandidates(cands, i) ==
  {k \in DOMAIN cands : cands[k].node.id = i /\ cands[k].reason = "isolated"}

\* c waits for the answer to the delete query
Deleting(c) ==
  /\ task[c].pc = "apply"
  /\ task[c].actions_map[task[c].gi].action = DELETE

\* C28: the isolated scan that succeeds yields, for every isolated node
\* older than 30 days of importance 'medium' (fewer of them than the scan's
\* limit), exactly one candidate: Delete, priority 3.  The answer to the
\* delete query sets deleted to the number of nodes the query removed:
\* every node of the candidates when none of them was touched in between
\* and the query counted, whatever the number of Delete candidates.
C28_DeletedIsRemoved ==
  /\ [][\A c \in Callers :
          (/\ task[c].pc = "identify"
           /\ task[c].scans["isolated"].status = "pending"
           /\ task'[c].scans["isolated"].status = "ok"
           /\ Cardinality(IsolatedOldMedium(graph)) <= ScanLimit)
          => LET rows == task'[c].scans["isolated"].rows
             IN \A i \in IsolatedOldMedium(graph) :
                  /\ Cardinality(IsolatedCandidates(rows, i)) = 1
                  /\ \A k \in IsolatedCandidates(rows, i) :
                       /\ rows[k].action = DELETE
                       /\ rows[k].priority = 3]_vars
  /\ [][\A c \in Callers :
          (Deleting(c) /\ task'[c] # task[c])
          => LET ids == NodeIds(task[c].actions_map[task[c].gi].cands)
                 removed == Learning(graph) \ Learning(graph')
             IN /\ task'[c].results.deleted = Cardinality(removed)
                /\ removed \in {{}, ids \cap Learning(graph)}
                /\ (ids \subseteq Learning(graph) /\ graph' # graph)
                     => task'[c].results.deleted = Cardinality(ids)]_vars

\* a cycle identified two isolated Delete candidates of priority 3, applied
\* three Delete candidates and reports the two nodes that were removed
C28_Witness ==
  \E c \in Callers :
    /\ task[c].apply_ret # None
    /\ \A i \in Ids :
         \E k \in IsolatedCandidates(task[c].identified, i) :
           /\ task[c].identified[k].action = DELETE
           /\ task[c].identified[k].priority = 3
    /\ Cardinality({k \in DOMAIN task[c].applied : task[c].applied[k].action = DELETE}) = 3
    /\ task[c].apply_ret[1].deleted = 2
    /\ Learning(graph) = {}

\* ------------------------------------------------------------------- C29
\* the 'after' health query of c's cycle was answered by an exception or by
\* no row
AfterHealthFailed(t) == t.after_answer \in {"raise", "empty"}

\* C29: when the 'after' health snapshot fails the cycle raises: it returns
\* no CleanupResults, issues no metrics log write and leaves last_cleanup
\* and the graph, mutations included, as they are; the guard is released.
\* last_cleanup changes only in the step in which a cycle returns.
C29_AfterHealthFails ==
  /\ [][\A c \in Callers :
          (task[c].pc = "health_after" /\ AfterHealthFailed(task'[c]))
          => /\ task'[c].pc = "done"
             /\ task'[c].outcome = "raised"
             /\ task'[c].ret = None
             /\ "log" \notin Range(task'[c].issued)
             /\ last_cleanup' = last_cleanup
             /\ graph' = graph
             /\ _is_running' = FALSE]_vars
  /\ [][last_cleanup' # last_cleanup =>
          \E c \in Callers :
            /\ task[c].op = "cycle"
            /\ task[c].pc # "done"
            /\ task'[c].pc = "done"
            /\ task'[c].outcome = "returned"]_vars
  /\ [](\A c \in Callers :
          AfterHealthFailed(task[c]) =>
            /\ task[c].outcome = "raised"
            /\ task[c].ret = None
            /\ task[c].log_answer = "none")

\* a first cycle deleted a node, then its 'after' health query returned no
\* row: nothing is returned, last_cleanup is still unset, the node is gone
C29_Witness ==
  \E c \in Callers :
    /\ task[c].op = "cycle"
    /\ task[c].after_answer = "empty"
    /\ task[c].outcome = "raised"
    /\ task[c].apply_ret # None
    /\ task[c].apply_ret[1].deleted >= 1
    /\ Learning(graph) # Ids
    /\ last_cleanup = None
    /\ task[c].ret = None

\* ------------------------------------------------------------------- C30
\* the tool calls inside _initialise
Initialising == {c \in ToolCalls : lazy_memory.calls[c].pc \in {"connect", "index"}}

\* the memory layers the tool calls have been given
MemoriesUsed ==
  {lazy_memory.calls[c].memory : c \in {d \in ToolCalls : lazy_memory.calls[d].memory # None}}

\* C30 as stated: the connection and the memory layer are initialised once.
\* _initialise is never running for two calls at a time, at most one
\* connection is ever established, every call is given the same memory
\* layer, and as long as no initialisation succeeded _initialized is false
\* and nothing is stored.
C30_AsClaimed ==
  lazy_memory.status = "ready" =>
    /\ Cardinality(Initialising) <= 1
    /\ Cardinality(lazy_memory.connected) <= 1
    /\ Cardinality(MemoriesUsed) <= 1
    /\ lazy_memory._initialized => lazy_memory.created = 1
    /\ ~lazy_memory._initialized =>
         lazy_memory._memory = None /\ lazy_memory._connection = None

====
